---- MODULE Spec2Model ----
(***************************************************************************)
(* A model of the JHP engine (MrF0o/jhp): the executor pool and its        *)
(* forwarder (crates/engine/src/engine.rs), the executor loop and its      *)
(* render of a parsed document (crates/executor/src/lib.rs, v8utils.rs,    *)
(* crates/parser/src/lib.rs: blocks_to_js), the lazily loaded module       *)
(* registry and the native call bridge (crates/engine/src/extensions.rs),  *)
(* the template parser (crates/parser/src/lib.rs), ExecutorPool::join, and *)
(* the module installers a render runs (crates/engine/src/bindings.rs).    *)
(*                                                                         *)
(* Text is modelled as a sequence of tokens.  A token of an Html block is  *)
(* one character; a token of a Script block is one whole JavaScript        *)
(* statement (or one white-space character); the pieces that blocks_to_js  *)
(* writes around a block are one token each; in them BQ stands for the    *)
(* back-quote character, which a TLA+ string cannot hold: "echo(BQ" is    *)
(* the text  echo(  followed by a back-quote, "BQ);" a back-quote         *)
(* followed by  );                                                         *)
(***************************************************************************)
EXTENDS Integers, Sequences, FiniteSets, TLC

VARIABLES
    intake,      \* the engine's intake channel: Seq of Op
    nextId,      \* number of Ops submitted so far (Ops are numbered 1..nextId)
    submitted,   \* history: submitted[i], the kind of Op i
    fwd,         \* the forwarder task: [pc, op, idx]
    next_idx,    \* ExecutorPool.next_idx
    mailbox,     \* mailbox[e]: the mpsc channel of executor e, Seq of Op
    pc,          \* pc[e]: "recv" (awaiting receiver.recv), "busy", "leaving"
                 \* (past the break, the receiver still there), "exited"
    cur,         \* cur[e]: the Op executor e is handling
    ctx,         \* ctx[e]: top-level names initialised in the script context
                 \*         of the Op that e handles (handled last)
    buffer,      \* buffer[e]: Executor.buffer
    sent,        \* sent[i]: bodies passed to respond_to.send of Op i, in order
    closed,      \* closed[i]: respond_to of Op i was dropped without a send
    dispatched,  \* history: [id, idx, ticket, by] of every ExecutorPool::send
    delivered,   \* history: delivered[e], ids placed in mailbox[e], in order
    events,      \* history: events[e], <<"begin"|"end", id>> of executor e
    prevCtx,     \* history: ctx[e] as left by the Op handled before cur[e]
    last,        \* history: last[e], what the handling of cur[e] did, and stale,
                 \*          whether the Op found text in the buffer
    obuf,        \* output buffer handed to run_jhp_blocks_with_origin
    oin,         \* the blocks handed to run_jhp_blocks_with_origin
    ores,        \* its result: res "none", "Ok" or "Err", and the block that raised
    loaded,      \* ModuleRegistry.loaded: set of keys
    installers,  \* ModuleRegistry.installers: key -> installer
    obj_names,   \* ModuleRegistry.obj_names: key -> object name
    loaded_w,    \* the thread that holds the write lock of loaded, or 0
    lib,         \* lib[c]: what the extension directory holds as libjhp_ext_<c>.so
    th,          \* th[t]: thread t in ensure_loaded: [pc, key, slow, opened, inst]
    returns,     \* history: the calls of ensure_loaded that returned
    opens,       \* history: opens[k], libraries opened for key k
    reopened,    \* history: keys whose library was opened while the key was loaded
    held,        \* held[c]: the library the process holds for that path
    br,          \* the native call in progress: [pc, res, read, rv, threw]
    freeLog,     \* history: <<ptr, len, read>> of every free_fn call of that call
    ncalls,      \* native calls made so far
    parser,      \* a Parser: [content, pos, line, nesting], and where parse is
    results,     \* ParseResults.blocks of the running (or last) parse
    spans,       \* history: [from, to, closed], the bytes each block consumed
    threads,     \* ExecutorPool.threads: the JoinHandles in the list, Seq of executor
    threads_lock,\* the caller of join that holds the Mutex of threads, or 0
    jn,          \* jn[j]: caller j of ExecutorPool::join: [pc, handles]
    joins,       \* history: [by, took, joined] of every call of join, in order of its lock
    rs,          \* rs[t]: the render of executor thread t: [pc, seen, atStart,
                 \*        includes, inc], inc what its last call of include did
    files,       \* files[k]: the places where a file for include(k) can be read
    glob,        \* glob[t]: the global object of the context of that render
    all_installers, \* the installer list ExecutorPool::new gives every executor
    rx_dropped,  \* rx_dropped[i]: the receiver of respond_to of Op i was dropped
    send_errs,   \* history: ids of the Ops whose respond_to.send returned Err
    response,    \* response[i]: what the HTTP handler of request i answered
    live,        \* live[e]: the script contexts of executor e that exist, each
                 \*          named by the id of the Op whose match arm made it
    hr,          \* a call of handle_request: [pc, path, resp, op]
    fs_log,      \* history: what that call did so far: exists, read, send
    nreq,        \* calls of handle_request so far
    js,          \* what blocks_to_js gave for the blocks of the last parse:
                 \* [done, src, blocks]
    stk,         \* stk[t]: the calls of install_one that thread t is in, the
                 \*         innermost last; each holds a read guard of
                 \*         installers: [key, ran], ran once the bootstrap
                 \*         script of the module has made its call of include
    taken,       \* taken[t]: the returns of ensure_loaded that the include
                 \*           calls of thread t have matched on
    waiters,     \* the threads parked in installers.write()
    snd          \* snd[c]: the call of ExecutorPool::send that caller c, a task
                 \*         other than the forwarder, is in: [pc, op, idx, ticket]

poolVars == <<intake, nextId, submitted, fwd, next_idx, mailbox, pc, cur, ctx, buffer, sent,
              closed, dispatched, delivered, events, prevCtx, last, obuf, oin, ores>>
regVars == <<loaded, installers, obj_names, loaded_w, lib, th, returns, opens, reopened, held>>
bridgeVars == <<br, freeLog, ncalls>>
parserVars == <<parser, results, spans>>
joinVars == <<threads, threads_lock, jn, joins>>
moduleVars == <<rs, glob, files, all_installers>>
replyVars == <<rx_dropped, send_errs, response, live>>
httpVars == <<hr, fs_log, nreq>>
emitVars == <<js>>
lockVars == <<stk, taken, waiters>>
sendVars == <<snd>>
laterVars == <<parserVars, joinVars, moduleVars, replyVars, httpVars, emitVars, lockVars,
               sendVars>>
exceptParser == <<poolVars, regVars, bridgeVars, joinVars, moduleVars, replyVars, httpVars, emitVars,
                 lockVars, sendVars>>
exceptJoin == <<poolVars, regVars, bridgeVars, parserVars, moduleVars, replyVars, httpVars, emitVars,
                 lockVars, sendVars>>
exceptModule == <<poolVars, regVars, bridgeVars, parserVars, joinVars, replyVars, httpVars, emitVars,
                 lockVars, sendVars>>
exceptReply == <<regVars, bridgeVars, parserVars, joinVars, moduleVars, httpVars, emitVars,
                 lockVars, sendVars>>
exceptHttp == <<regVars, bridgeVars, parserVars, joinVars, moduleVars, replyVars, emitVars,
                 lockVars, sendVars>>
exceptEmit == <<poolVars, regVars, bridgeVars, parserVars, joinVars, moduleVars, replyVars,
                httpVars, lockVars, sendVars>>
exceptLock == <<poolVars, bridgeVars, parserVars, joinVars, moduleVars, replyVars, httpVars,
                emitVars, sendVars>>
exceptSend == <<regVars, bridgeVars, parserVars, joinVars, moduleVars, replyVars, httpVars,
                emitVars, lockVars>>
extVars == <<regVars, bridgeVars, laterVars>>
vars == <<poolVars, regVars, bridgeVars, laterVars>>

(***************************************************************************)
(* Bounds of the model.                                                    *)
(***************************************************************************)
\* nb of ExecutorPool::new
NumExecutors == 2
\* Ops submitted in one behaviour
MaxItems == 5
\* blocks of a document
MaxBlocks == 2
\* Ops handed to the executor observed alone
MaxRenders == 2
\* blocks of a document whose control flow spans Script blocks
MaxSpan == 3

\* pieces (a fence, or a character) of a page given to the parser
MaxInput == 5

\* pieces of a page of text with quotes given to the parser
MaxText == 5

\* pieces of a page with braces given to the parser
MaxBraces == 4

\* Ops submitted in one behaviour in which clients come and go
MaxRequests == 3

\* pieces (a slash, dots, a name) of a request path
MaxPath == 3

\* threads that call ExecutorPool::join
NumJoiners == 2
\* calls of ExecutorPool::join in one behaviour
MaxJoins == 3

\* tasks other than the forwarder that call ExecutorPool::send
NumCallers == 2
\* calls of ExecutorPool::send by those tasks in one behaviour
MaxDirect == 2
\* Ops made in one behaviour in which those tasks call send
MaxSent == 4
\* threads that call ensure_loaded
NumThreads == 2
\* calls of ensure_loaded in one behaviour
MaxLoads == 3
\* calls of include by the documents in one behaviour
MaxIncludes == 2
\* native calls in one behaviour
MaxCalls == 2
\* longest buffer a native function returns
MaxLen == 2

Execs == 0..(NumExecutors - 1)
Ids == 1..MaxItems
Threads == 1..NumThreads
Callers == 1..NumCallers

\* Module keys, as sequences of characters
Keys == {<<"m">>, <<"s", "3">>}

\* char::is_ascii_digit, and the decimal digits of the script language
DecimalDigits == {"0", "1", "2", "3", "4", "5", "6", "7", "8", "9"}

\* name.trim_end_matches(|c: char| c.is_ascii_digit())
RECURSIVE TrimEndDigits(_)
TrimEndDigits(name) ==
    IF name # <<>> /\ name[Len(name)] \in DecimalDigits
    THEN TrimEndDigits(SubSeq(name, 1, Len(name) - 1))
    ELSE name

\* The names under which the library of a module is looked for, in order:
\* the key, then the key without its trailing digits
Candidates(name, stripped) ==
    IF stripped # name /\ stripped # <<>> THEN <<name, stripped>> ELSE <<name>>

module_name_candidates(name) == Candidates(name, TrimEndDigits(name))

\* The library names of the keys: c stands for the path libjhp_ext_<c>.so
\* of the extension directory
LibNames ==
    UNION {{module_name_candidates(k)[n] : n \in 1..Len(module_name_candidates(k))} :
           k \in Keys}

\* What the extension directory holds under a library name: no file, a file the
\* dynamic loader rejects, a library without jhp_register_v1, one whose
\* registration has abi_version # 1, one with an empty function table, a
\* well-formed module.
LibStates == {"absent", "unloadable", "nosym", "badabi", "empty", "good"}

\* An executor thread between two renders
\* The global of a new context: objs, the names under which it holds an
\* object that carries the functions of a module; fns, the other names the
\* installers have set; n, the value of the global n (0: not defined)
EmptyGlobal == [objs |-> {}, fns |-> {}, n |-> 0]
\* No module key
NoKey == <<>>
NoInclude == [key |-> NoKey, ret |-> "", outcome |-> "none", ran |-> "none", tried |-> <<>>,
              moved |-> FALSE]
\* ran and once are history: the keys whose installer has run on the
\* context, and the global the context would have had a run of an installer
\* on a context it had run on before done no more than set the module
\* object again.
IdleRender == [pc |-> "idle", seen |-> 0, atStart |-> {}, includes |-> 0,
               inc |-> NoInclude, ran |-> {}, once |-> EmptyGlobal]

Joiners == 1..NumJoiners
\* A thread outside ExecutorPool::join
IdleJoin == [pc |-> "idle", handles |-> <<>>, call |-> 0]

\* A thread outside ensure_loaded
IdleThread == [pc |-> "idle", key |-> <<>>, slow |-> FALSE, opened |-> FALSE,
               inst |-> [key |-> <<>>, gen |-> 0], name |-> <<>>]

\* A request whose handler has not answered
NoResponse == [by |-> "none", status |-> 0, body |-> <<>>]

\* No call of handle_request is running
IdleRequest == [pc |-> "idle", path |-> <<>>, resp |-> NoResponse, op |-> 0]

\* Pointers a native function returns; "null" is the null pointer
Ptrs == {"null", "p", "q"}
NoResult == [ok |-> FALSE, ptr |-> "null", len |-> 0]
IdleCall == [pc |-> "idle", res |-> NoResult, read |-> FALSE, rv |-> "undefined",
             threw |-> FALSE]

(***************************************************************************)
(* Blocks (crates/parser: CodeBlock).  Only kind and content matter to a   *)
(* render through blocks_to_js.                                            *)
(***************************************************************************)
Html(c) == [kind |-> "Html", content |-> c]
Javascript(c) == [kind |-> "Javascript", content |-> c]
Expression(c) == [kind |-> "Expression", content |-> c]

\* How a character stands here: a character of Latin-1 stands as itself,
\* but the back-quote, which is BQ, and the control characters that are no
\* white space; these, and every character above U+00FF, stand as the name
\* of their code point, U+ and its four to six hexadecimal digits.

\* char::is_whitespace, which str::trim, trim_start and trim_end go by: the
\* characters of the Unicode property White_Space.
WhiteSpace ==
    {" ", "\n", "\t", "\r", "\f", "", "", " ", "U+1680",
     "U+2000", "U+2001", "U+2002", "U+2003", "U+2004", "U+2005", "U+2006",
     "U+2007", "U+2008", "U+2009", "U+200A", "U+2028", "U+2029", "U+202F",
     "U+205F", "U+3000"}

\* WhiteSpace and LineTerminator of the script language: no U+0085, and
\* U+FEFF on top.
JsWhiteSpace == (WhiteSpace \ {""}) \cup {"U+FEFF"}

RECURSIVE TrimStart(_)
TrimStart(s) ==
    IF s # <<>> /\ Head(s) \in WhiteSpace THEN TrimStart(Tail(s)) ELSE s

RECURSIVE TrimEnd(_)
TrimEnd(s) ==
    IF s # <<>> /\ s[Len(s)] \in WhiteSpace
    THEN TrimEnd(SubSeq(s, 1, Len(s) - 1))
    ELSE s

Trim(s) == TrimEnd(TrimStart(s))

\* One entry of js_lines.
JsLine(b) ==
    CASE b.kind = "Javascript" -> Trim(b.content)
      [] b.kind = "Html" -> <<"echo(BQ">> \o b.content \o <<"BQ);">>
      [] b.kind = "Expression" ->
            <<"echo(String(">> \o Trim(b.content) \o <<"));">>

\* A join that puts nothing between two entries
RECURSIVE JoinBare(_)
JoinBare(lines) == IF lines = <<>> THEN <<>> ELSE lines[1] \o JoinBare(Tail(lines))

\* js_lines.join("\n")
RECURSIVE JoinLines(_)
JoinLines(lines) ==
    IF lines = <<>> THEN <<>>
    ELSE IF Len(lines) = 1 THEN lines[1]
    ELSE lines[1] \o <<"\n">> \o JoinLines(Tail(lines))

blocks_to_js(blocks) ==
    JoinLines([i \in 1..Len(blocks) |-> JsLine(blocks[i])])

(***************************************************************************)
(* The template parser (crates/parser/src/lib.rs).  The input is a         *)
(* sequence of characters; pos counts from 0 as in the source, so the      *)
(* character at pos is content[pos + 1].  The three entities the parser    *)
(* writes are one token each.                                              *)
(***************************************************************************)
CodeBlock(kind, lineno, colno, content, level) ==
    [kind |-> kind, lineno |-> lineno, colno |-> colno, content |-> content,
     level |-> level]

lookahead(c, pos, pat) ==
    /\ pos + Len(pat) <= Len(c)
    /\ SubSeq(c, pos + 1, pos + Len(pat)) = pat

\* The 1-based positions of the line breaks before byte_pos
BreaksBefore(c, byte_pos) == {j \in 1..byte_pos : c[j] = "\n"}

Max(S) == CHOOSE m \in S : \A n \in S : m >= n

\* A parser that takes every position for the start of a line
ColumnOne(c, byte_pos) == 1

column_at(c, byte_pos) ==
    IF BreaksBefore(c, byte_pos) = {} THEN byte_pos + 1
    ELSE byte_pos - Max(BreaksBefore(c, byte_pos)) + 1

\* A parser that pushes every character as it is
HtmlVerbatim(ch) == ch

\* The match of parse_html_block
HtmlEncode(ch) ==
    CASE ch = "'" -> "&#39;"
      [] ch = "\"" -> "&quot;"
      [] ch = "BQ" -> "&#96;"
      [] OTHER -> ch

\* A loop that consumes nothing
ScanStuck(c, pos, pat) == pos

\* Where the while loop of a block stops: at pat or at the end of the input
RECURSIVE ScanTo(_, _, _)
ScanTo(c, pos, pat) ==
    IF pos < Len(c) /\ ~lookahead(c, pos, pat) THEN ScanTo(c, pos + 1, pat) ELSE pos

NewLines(s) == Cardinality({j \in 1..Len(s) : s[j] = "\n"})

\* [block, pos, line, nesting, closed]
parse_html_block(c, pos, line, nesting) ==
    LET end == ScanTo(c, pos, <<"<", "?">>) IN
    [block |-> CodeBlock("Html", line, column_at(c, pos),
                         [j \in 1..(end - pos) |-> HtmlEncode(c[pos + j])], nesting),
     pos |-> end,
     line |-> line + NewLines(SubSeq(c, pos + 1, end)),
     nesting |-> nesting,
     closed |-> TRUE]

StartsWithChar(s, ch) == s # <<>> /\ s[1] = ch
EndsWithChar(s, ch) == s # <<>> /\ s[Len(s)] = ch

\* A counter that a closing brace takes below 0
LevelBelowZero(buf, nesting) ==
    IF StartsWithChar(TrimStart(buf), "}") THEN nesting - 1 ELSE nesting

\* self.nesting.saturating_sub(1) when the body starts with a closing brace
Level(buf, nesting) ==
    IF StartsWithChar(TrimStart(buf), "}") /\ nesting > 0 THEN nesting - 1 ELSE nesting

\* buf.find('='), counted in characters, and the white space behind it
CharsToEq(buf) == Len(buf) - Len(TrimStart(buf))
WsAfterEq(buf) ==
    Len(Tail(TrimStart(buf))) - Len(TrimStart(Tail(TrimStart(buf))))

\* A parser that takes a body for an expression only when = is its first
\* character
JsBlockStrict(c, tag_pos, line, buf, level) ==
    IF StartsWithChar(buf, "=")
    THEN CodeBlock("Expression", line, column_at(c, tag_pos) + 2 + 1 + WsAfterEq(buf),
                   Trim(Tail(buf)), level)
    ELSE CodeBlock("Javascript", line, column_at(c, tag_pos) + 2, buf, level)

JsBlock(c, tag_pos, line, buf, level) ==
    IF StartsWithChar(TrimStart(buf), "=")
    THEN CodeBlock("Expression", line,
                   column_at(c, tag_pos) + 2 + CharsToEq(buf) + 1 + WsAfterEq(buf),
                   Trim(Tail(TrimStart(buf))), level)
    ELSE CodeBlock("Javascript", line, column_at(c, tag_pos) + 2, buf, level)

\* A parser that leaves the closing fence to the next block
FenceLeft(c, end) == end

\* if self.lookahead("?>") { consume; consume }
AfterFence(c, end) == IF lookahead(c, end, <<"?", ">">>) THEN end + 2 ELSE end

JsParsed(c, tag_pos, line, nesting, end, buf) ==
    [block |-> JsBlock(c, tag_pos, line, buf, Level(buf, nesting)),
     pos |-> AfterFence(c, end),
     line |-> line + NewLines(buf),
     nesting |-> IF EndsWithChar(TrimEnd(buf), "{")
                 THEN Level(buf, nesting) + 1 ELSE Level(buf, nesting),
     closed |-> lookahead(c, end, <<"?", ">">>)]

JsScanned(c, tag_pos, line, nesting, end) ==
    JsParsed(c, tag_pos, line, nesting, end, SubSeq(c, tag_pos + 3, end))

parse_js_block(c, pos, line, nesting) ==
    JsScanned(c, pos, line, nesting, ScanTo(c, pos + 2, <<"?", ">">>))

(***************************************************************************)
(* The script engine, as far as a document can tell.  A source is a token  *)
(* sequence, as blocks_to_js writes it: the four pieces echo(BQ, BQ);,     *)
(* echo(String( and )); stand where blocks_to_js puts them, and the        *)
(* content of a block stands between them.                                 *)
(*                                                                         *)
(* Script code is made of statement tokens, which are whole statements:    *)
(*   echo('k');        appends k                                           *)
(*   let x=1;          declares and initialises the name x in the block it *)
(*                     is in, or at the top level                          *)
(*   echo(typeof x);   appends number or undefined (throws while x is      *)
(*                     declared and not initialised)                       *)
(*   throw 0;          throws the number 0, a value without a stack        *)
(*   throw new Error('boom');  throws an Error, whose stack begins with    *)
(*                     its summary                                         *)
(* of if(1){ and { , which open a block, and } , which closes one; of      *)
(* words, which are runs of the characters h x $ 7: a name (it begins with *)
(* h, x or $) or a number (all 7); and of white space.  A word is an       *)
(* expression statement, ended by the end of the source, by a } or by a    *)
(* line terminator; a name written right before an echo statement makes    *)
(* the call of another name (xecho).  Every other character is a syntax    *)
(* error in code.                                                          *)
(*                                                                         *)
(* echo(BQ ... BQ); is a template literal.  Its content is made of         *)
(* characters: a back-slash begins an escape sequence, ${ e } is a         *)
(* substitution, CR and CR LF are read as LF, every other character is     *)
(* itself.  A back-quote is not among these characters (the parser writes  *)
(* an entity for it).                                                      *)
(* echo(String( e )); and ${ e }: e is a number, a name, {} or {name},     *)
(* and for String nothing at all.                                          *)
(***************************************************************************)
StmtTokens ==
    {"echo('k');", "let x=1;", "echo(typeof x);", "throw 0;", "throw new Error('boom');"}
\* The tokens that begin with the name echo and call it
CallTokens == {"echo('k');", "echo(typeof x);", "echo(BQ", "echo(String("}
BlockOpeners == {"if(1){", "{"}
IdentStart == {"h", "x", "$"}
Digits == {"7"}
WordChars == IdentStart \cup Digits
LineTerminators == {"\n", "\r", "U+2028", "U+2029"}
HexUpper == <<"0", "1", "2", "3", "4", "5", "6", "7", "8", "9", "A", "B", "C", "D", "E", "F">>
HexLower == <<"0", "1", "2", "3", "4", "5", "6", "7", "8", "9", "a", "b", "c", "d", "e", "f">>

\* The first position >= from of s that holds tok, or 0.
FirstTok(s, from, tok) ==
    IF \E j \in from..Len(s) : s[j] = tok
    THEN CHOOSE j \in from..Len(s) :
            s[j] = tok /\ \A i \in from..(j - 1) : s[i] # tok
    ELSE 0

IndexOf(seq, c) == CHOOSE k \in 1..Len(seq) : seq[k] = c

IsHex(ch) == \E k \in 1..16 : HexUpper[k] = ch \/ HexLower[k] = ch

HexVal(ch) ==
    IF \E k \in 1..16 : HexUpper[k] = ch THEN IndexOf(HexUpper, ch) - 1
    ELSE IndexOf(HexLower, ch) - 1

\* Above every code point (17 planes of 65536)
TooBig == 17 * 65536

\* The value of the hexadecimal digits ds after the value acc, or TooBig
RECURSIVE HexNumber(_, _)
HexNumber(ds, acc) ==
    IF ds = <<>> THEN acc
    ELSE IF 16 * acc + HexVal(ds[1]) >= TooBig THEN TooBig
    ELSE HexNumber(Tail(ds), 16 * acc + HexVal(ds[1]))

\* The characters U+0000..U+00FF
Latin1 ==
    <<"U+0000", "U+0001", "U+0002", "U+0003", "U+0004", "U+0005", "U+0006", "U+0007",
      "U+0008", "\t", "\n", "", "\f", "\r", "U+000E", "U+000F",
      "U+0010", "U+0011", "U+0012", "U+0013", "U+0014", "U+0015", "U+0016", "U+0017",
      "U+0018", "U+0019", "U+001A", "U+001B", "U+001C", "U+001D", "U+001E", "U+001F",
      " ", "!", "\"", "#", "$", "%", "&", "'",
      "(", ")", "*", "+", ",", "-", ".", "/",
      "0", "1", "2", "3", "4", "5", "6", "7",
      "8", "9", ":", ";", "<", "=", ">", "?",
      "@", "A", "B", "C", "D", "E", "F", "G",
      "H", "I", "J", "K", "L", "M", "N", "O",
      "P", "Q", "R", "S", "T", "U", "V", "W",
      "X", "Y", "Z", "[", "\\", "]", "^", "_",
      "BQ", "a", "b", "c", "d", "e", "f", "g",
      "h", "i", "j", "k", "l", "m", "n", "o",
      "p", "q", "r", "s", "t", "u", "v", "w",
      "x", "y", "z", "{", "|", "}", "~", "U+007F",
      "U+0080", "U+0081", "U+0082", "U+0083", "U+0084", "", "U+0086", "U+0087",
      "U+0088", "U+0089", "U+008A", "U+008B", "U+008C", "U+008D", "U+008E", "U+008F",
      "U+0090", "U+0091", "U+0092", "U+0093", "U+0094", "U+0095", "U+0096", "U+0097",
      "U+0098", "U+0099", "U+009A", "U+009B", "U+009C", "U+009D", "U+009E", "U+009F",
      " ", "¡", "¢", "£", "¤", "¥", "¦", "§",
      "¨", "©", "ª", "«", "¬", "­", "®", "¯",
      "°", "±", "²", "³", "´", "µ", "¶", "·",
      "¸", "¹", "º", "»", "¼", "½", "¾", "¿",
      "À", "Á", "Â", "Ã", "Ä", "Å", "Æ", "Ç",
      "È", "É", "Ê", "Ë", "Ì", "Í", "Î", "Ï",
      "Ð", "Ñ", "Ò", "Ó", "Ô", "Õ", "Ö", "×",
      "Ø", "Ù", "Ú", "Û", "Ü", "Ý", "Þ", "ß",
      "à", "á", "â", "ã", "ä", "å", "æ", "ç",
      "è", "é", "ê", "ë", "ì", "í", "î", "ï",
      "ð", "ñ", "ò", "ó", "ô", "õ", "ö", "÷",
      "ø", "ù", "ú", "û", "ü", "ý", "þ", "ÿ">>
\* The name of a code point above U+00FF
CodePointName(n) ==
    (IF n >= 1048576 THEN "U+10"
     ELSE IF n >= 65536 THEN "U+" \o HexUpper[((n \div 65536) % 16) + 1]
     ELSE "U+")
    \o HexUpper[((n \div 4096) % 16) + 1] \o HexUpper[((n \div 256) % 16) + 1]
    \o HexUpper[((n \div 16) % 16) + 1] \o HexUpper[(n % 16) + 1]

CharOf(n) == IF n < 256 THEN Latin1[n + 1] ELSE CodePointName(n)

IsHighSurrogate(n) == n >= 55296 /\ n <= 56319
IsLowSurrogate(n) == n >= 56320 /\ n <= 57343

\* \uXXXX or \u{X..} at the head of c: the code unit or code point it names,
\* and the tokens it takes
NoUnit == [ok |-> FALSE, code |-> 0, n |-> 0]
UnicodeEscape(c) ==
    IF Len(c) < 3 \/ c[1] # "\\" \/ c[2] # "u" THEN NoUnit
    ELSE IF c[3] = "{" THEN
        IF FirstTok(c, 4, "}") <= 4 THEN NoUnit
        ELSE IF \E k \in 4..(FirstTok(c, 4, "}") - 1) : ~IsHex(c[k]) THEN NoUnit
        ELSE IF HexNumber(SubSeq(c, 4, FirstTok(c, 4, "}") - 1), 0) = TooBig THEN NoUnit
        ELSE [ok |-> TRUE, code |-> HexNumber(SubSeq(c, 4, FirstTok(c, 4, "}") - 1), 0),
              n |-> FirstTok(c, 4, "}")]
    ELSE IF Len(c) >= 6 /\ \A k \in 3..6 : IsHex(c[k])
    THEN [ok |-> TRUE, code |-> HexNumber(SubSeq(c, 3, 6), 0), n |-> 6]
    ELSE NoUnit

\* The character that the code unit u, written at the head of c, gives to a
\* Rust string (to_rust_string_lossy): a high surrogate pairs with a low
\* one that an escape sequence names right after it, a surrogate alone
\* becomes U+FFFD.
Cooked(v, n) == [ok |-> TRUE, v |-> v, n |-> n]
BadEscape == [ok |-> FALSE, v |-> <<>>, n |-> 0]
Paired(u, low) ==
    IF IsHighSurrogate(u.code) /\ low.ok /\ IsLowSurrogate(low.code)
    THEN Cooked(<<CharOf(65536 + (u.code - 55296) * 1024 + (low.code - 56320))>>,
                 u.n + low.n)
    ELSE IF IsHighSurrogate(u.code) \/ IsLowSurrogate(u.code)
    THEN Cooked(<<"U+FFFD">>, u.n)
    ELSE Cooked(<<CharOf(u.code)>>, u.n)

UnicodeChar(c, u) ==
    IF ~u.ok THEN BadEscape ELSE Paired(u, UnicodeEscape(SubSeq(c, u.n + 1, Len(c))))

SingleEscapes == {"n", "t", "r", "b", "f", "v"}
SingleEscape(ch) ==
    CASE ch = "n" -> "\n"
      [] ch = "t" -> "\t"
      [] ch = "r" -> "\r"
      [] ch = "b" -> "U+0008"
      [] ch = "f" -> "\f"
      [] ch = "v" -> ""

\* The escape sequence at the head of c, whose first token is the
\* back-slash: the characters it stands for and the tokens it takes. A
\* back-slash at the end of the content escapes the closing back-quote.
Escape(c) ==
    IF Len(c) = 1 THEN BadEscape
    ELSE IF c[2] = "\r"
    THEN Cooked(<<>>, IF Len(c) >= 3 /\ c[3] = "\n" THEN 3 ELSE 2)
    ELSE IF c[2] \in LineTerminators THEN Cooked(<<>>, 2)
    ELSE IF c[2] \in SingleEscapes THEN Cooked(<<SingleEscape(c[2])>>, 2)
    ELSE IF c[2] = "0"
    THEN IF Len(c) >= 3 /\ c[3] \in DecimalDigits THEN BadEscape
         ELSE Cooked(<<CharOf(0)>>, 2)
    ELSE IF c[2] \in DecimalDigits THEN BadEscape
    ELSE IF c[2] = "x"
    THEN IF Len(c) >= 4 /\ IsHex(c[3]) /\ IsHex(c[4])
         THEN Cooked(<<CharOf(16 * HexVal(c[3]) + HexVal(c[4]))>>, 4)
         ELSE BadEscape
    ELSE IF c[2] = "u" THEN UnicodeChar(c, UnicodeEscape(c))
    ELSE Cooked(<<c[2]>>, 2)

RECURSIVE JsTrimStart(_)
JsTrimStart(s) ==
    IF s # <<>> /\ Head(s) \in JsWhiteSpace THEN JsTrimStart(Tail(s)) ELSE s

RECURSIVE JsTrimEnd(_)
JsTrimEnd(s) ==
    IF s # <<>> /\ s[Len(s)] \in JsWhiteSpace
    THEN JsTrimEnd(SubSeq(s, 1, Len(s) - 1))
    ELSE s

\* s without the white space of the script language around it
JsTrim(s) == JsTrimEnd(JsTrimStart(s))

IsNumber(w) == w # <<>> /\ \A k \in 1..Len(w) : w[k] \in Digits
IsName(w) == w # <<>> /\ w[1] \in IdentStart /\ \A k \in 1..Len(w) : w[k] \in WordChars
IsWord(w) == IsNumber(w) \/ IsName(w)

\* An expression: kind is empty, num, name, obj ({}) or objname ({name}),
\* v the digits or the name
NoExpr == [ok |-> FALSE, kind |-> "none", v |-> <<>>]
Expr(kind, v) == [ok |-> TRUE, kind |-> kind, v |-> v]

ObjectLiteral(m) ==
    IF m = <<>> THEN Expr("obj", <<>>)
    ELSE IF IsName(m) THEN Expr("objname", m)
    ELSE NoExpr

ParseTrimmed(t) ==
    IF t = <<>> THEN Expr("empty", <<>>)
    ELSE IF IsNumber(t) THEN Expr("num", t)
    ELSE IF IsName(t) THEN Expr("name", t)
    ELSE IF Len(t) >= 2 /\ t[1] = "{" /\ t[Len(t)] = "}"
    THEN ObjectLiteral(JsTrim(SubSeq(t, 2, Len(t) - 1)))
    ELSE NoExpr

ParseExpr(e) == ParseTrimmed(JsTrim(e))

\* The parts of a template literal: literal text, and substitutions
Lit(v) == [t |-> "lit", kind |-> "lit", v |-> v]
Sub(e) == [t |-> "sub", kind |-> e.kind, v |-> e.v]
BadTemplate == [ok |-> FALSE, parts |-> <<>>]

\* The } that closes the substitution at the head of c (c[1] = "$",
\* c[2] = "{"), or 0: the first } when what lies before it is an
\* expression, else the second, the first being that of an object literal.
SubstEnd(c, j1) ==
    IF j1 = 0 THEN 0
    ELSE IF ParseExpr(SubSeq(c, 3, j1 - 1)).ok
    THEN IF ParseExpr(SubSeq(c, 3, j1 - 1)).kind = "empty" THEN 0 ELSE j1
    ELSE IF FirstTok(c, j1 + 1, "}") = 0 THEN 0
    ELSE IF ParseExpr(SubSeq(c, 3, FirstTok(c, j1 + 1, "}") - 1)).ok
    THEN FirstTok(c, j1 + 1, "}")
    ELSE 0

RECURSIVE ParseTemplate(_, _)
AfterEscape(c, acc, e) ==
    IF ~e.ok THEN BadTemplate
    ELSE ParseTemplate(SubSeq(c, e.n + 1, Len(c)), Append(acc, Lit(e.v)))

AfterSubst(c, acc, j) ==
    IF j = 0 THEN BadTemplate
    ELSE ParseTemplate(SubSeq(c, j + 1, Len(c)),
                       Append(acc, Sub(ParseExpr(SubSeq(c, 3, j - 1)))))

ParseTemplate(c, acc) ==
    IF c = <<>> THEN [ok |-> TRUE, parts |-> acc]
    ELSE IF c[1] = "\\" THEN AfterEscape(c, acc, Escape(c))
    ELSE IF c[1] = "BQ" THEN BadTemplate
    ELSE IF c[1] = "$" /\ Len(c) >= 2 /\ c[2] = "{"
    THEN AfterSubst(c, acc, SubstEnd(c, FirstTok(c, 3, "}")))
    ELSE IF c[1] = "\r"
    THEN ParseTemplate(SubSeq(c, IF Len(c) >= 2 /\ c[2] = "\n" THEN 3 ELSE 2, Len(c)),
                       Append(acc, Lit(<<"\n">>)))
    ELSE ParseTemplate(Tail(c), Append(acc, Lit(<<c[1]>>)))

\* What a TryCatch holds of an exception: str is exception().to_string, stack
\* is stack_trace() (empty when the thrown value has none). An Error's stack
\* is its summary and then its frames.
NoException == [str |-> <<>>, stack |-> <<>>]
Primitive(str) == [str |-> <<str>>, stack |-> <<>>]
ErrorObject(str) == [str |-> <<str>>, stack |-> <<str, "\n", "    at <frame>">>]
\* An Error thrown while no code of the script runs: its stack is its summary.
ErrorNoFrame(str) == [str |-> <<str>>, stack |-> <<str>>]

SyntaxError(p) == [status |-> "compile_error", stmts |-> <<>>, pos |-> p]

\* A statement: callee is the name called in place of echo, if any
Stmt(op, arg, pos, callee) == [op |-> op, arg |-> arg, pos |-> pos, callee |-> callee]

\* The blocks that the statements parsed so far have left open
OpenBlocks(acc) ==
    Cardinality({k \in 1..Len(acc) : acc[k].op \in BlockOpeners})
    - Cardinality({k \in 1..Len(acc) : acc[k].op = "}"})

\* The last position of the word that begins at i
RECURSIVE WordEnd(_, _)
WordEnd(src, i) ==
    IF i < Len(src) /\ src[i + 1] \in WordChars THEN WordEnd(src, i + 1) ELSE i

\* The first position >= i that holds no white space
RECURSIVE SkipBlank(_, _)
SkipBlank(src, i) ==
    IF i <= Len(src) /\ src[i] \in JsWhiteSpace THEN SkipBlank(src, i + 1) ELSE i

RECURSIVE ParseFrom(_, _, _)
\* The statement that begins with the call token src[i]; it began at pos
\* when a name stands right before the token.
ParseEchoTemplate(src, i, j, pos, callee, acc, tp) ==
    IF ~tp.ok THEN SyntaxError(pos)
    ELSE ParseFrom(src, j + 1, Append(acc, Stmt(src[i], tp.parts, pos, callee)))

ParseEchoString(src, i, j, pos, callee, acc, e) ==
    IF ~e.ok THEN SyntaxError(pos)
    ELSE ParseFrom(src, j + 1, Append(acc, Stmt(src[i], e, pos, callee)))

ParseCall(src, i, pos, callee, acc) ==
    IF src[i] \in StmtTokens
    THEN ParseFrom(src, i + 1, Append(acc, Stmt(src[i], <<>>, pos, callee)))
    ELSE IF src[i] = "echo(BQ" THEN
        IF FirstTok(src, i + 1, "BQ);") = 0 THEN SyntaxError(pos)
        ELSE ParseEchoTemplate(src, i, FirstTok(src, i + 1, "BQ);"), pos, callee, acc,
                ParseTemplate(SubSeq(src, i + 1, FirstTok(src, i + 1, "BQ);") - 1), <<>>))
    ELSE
        IF FirstTok(src, i + 1, "));") = 0 THEN SyntaxError(pos)
        ELSE ParseEchoString(src, i, FirstTok(src, i + 1, "));"), pos, callee, acc,
                ParseExpr(SubSeq(src, i + 1, FirstTok(src, i + 1, "));") - 1)))

\* The word src[i..j] is an expression statement when the source ends
\* after it, or a } or a line terminator follows it (k is the first
\* position after j that holds no white space).
AfterWord(src, i, j, k, acc) ==
    IF k > Len(src)
       \/ src[k] = "}"
       \/ \E n \in (j + 1)..(k - 1) : src[n] \in LineTerminators
    THEN ParseFrom(src, k, Append(acc, Stmt("expr", ParseExpr(SubSeq(src, i, j)), i, <<>>)))
    ELSE SyntaxError(k)

ParseWord(src, i, j, acc) ==
    IF ~IsWord(SubSeq(src, i, j)) THEN SyntaxError(i)
    ELSE IF j < Len(src) /\ src[j + 1] \in CallTokens
    THEN IF IsNumber(SubSeq(src, i, j)) THEN SyntaxError(i)
         ELSE ParseCall(src, j + 1, i, SubSeq(src, i, j) \o <<"e", "c", "h", "o">>, acc)
    ELSE AfterWord(src, i, j, SkipBlank(src, j + 1), acc)

ParseFrom(src, i, acc) ==
    IF i > Len(src)
    THEN IF OpenBlocks(acc) > 0 THEN SyntaxError(i)
         ELSE [status |-> "ok", stmts |-> acc, pos |-> 0]
    ELSE IF src[i] \in JsWhiteSpace THEN ParseFrom(src, i + 1, acc)
    ELSE IF src[i] \in BlockOpeners
    THEN ParseFrom(src, i + 1, Append(acc, Stmt(src[i], <<>>, i, <<>>)))
    ELSE IF src[i] = "}" THEN
        IF OpenBlocks(acc) = 0 THEN SyntaxError(i)
        ELSE ParseFrom(src, i + 1, Append(acc, Stmt(src[i], <<>>, i, <<>>)))
    ELSE IF src[i] \in CallTokens THEN ParseCall(src, i, i, <<>>, acc)
    ELSE IF src[i] \in StmtTokens
    THEN ParseFrom(src, i + 1, Append(acc, Stmt(src[i], <<>>, i, <<>>)))
    ELSE IF src[i] \in WordChars THEN ParseWord(src, i, WordEnd(src, i), acc)
    ELSE SyntaxError(i)

\* The block that statement k is in: the position in stmts of the token
\* that opened it, 0 at the top level (j runs down from k - 1, n counts the
\* blocks closed on the way)
RECURSIVE EnclosingFrom(_, _, _)
EnclosingFrom(stmts, j, n) ==
    IF j = 0 THEN 0
    ELSE IF stmts[j].op = "}" THEN EnclosingFrom(stmts, j - 1, n + 1)
    ELSE IF stmts[j].op \in BlockOpeners
    THEN IF n = 0 THEN j ELSE EnclosingFrom(stmts, j - 1, n - 1)
    ELSE EnclosingFrom(stmts, j - 1, n)

Enclosing(stmts, k) == EnclosingFrom(stmts, k - 1, 0)

\* The declarations of x that block b holds (b = 0: the top level)
LetsOf(stmts, b) ==
    {k \in 1..Len(stmts) : stmts[k].op = "let x=1;" /\ Enclosing(stmts, k) = b}

LetPositions(stmts) == LetsOf(stmts, 0)

\* The declarations of x that follow another one of their block
DuplicateLets(stmts) ==
    {k \in 1..Len(stmts) :
        /\ stmts[k].op = "let x=1;"
        /\ \E a \in 1..(k - 1) : a \in LetsOf(stmts, Enclosing(stmts, k))}

Min(S) == CHOOSE m \in S : \A n \in S : m <= n

\* v8::Script::compile: the parse, then the early error of a name declared
\* twice in one block, or twice at the top level of one script.
EarlyErrors(p) ==
    IF p.status # "ok" THEN p
    ELSE IF DuplicateLets(p.stmts) # {}
    THEN SyntaxError(p.stmts[Min(DuplicateLets(p.stmts))].pos)
    ELSE p

V8Compile(src) == EarlyErrors(ParseFrom(src, 1, <<>>))

\* What echo wrote: a sequence of [pos, str], pos the position in the
\* source of the statement that called echo.
RECURSIVE Flatten(_)
Flatten(log) == IF log = <<>> THEN <<>> ELSE log[1].str \o Flatten(Tail(log))

Thrown(log, c, p, exc) ==
    [status |-> "run_error", out |-> Flatten(log), log |-> log, ctx |-> c, pos |-> p,
     exc |-> exc]

\* ReferenceError: <name> is not defined
NameNotDefined(name) ==
    [str |-> <<"ReferenceError: ">> \o name \o <<" is not defined">>,
     stack |-> <<"ReferenceError: ">> \o name
               \o <<" is not defined", "\n", "    at <frame>">>]
NotDefined == NameNotDefined(<<"x">>)

Uninitialised == ErrorObject("ReferenceError: Cannot access 'x' before initialization")
\* Thrown when the script is instantiated, before any of its code runs: the
\* stack has no frame of the script.
Redeclared == ErrorNoFrame("SyntaxError: Identifier 'x' has already been declared")

\* The binding of x that a read finds: that of the innermost open block
\* that declares x, else that of the top level. init: the top-level names
\* initialised in the context; tdz: those the running script declares and
\* has not initialised yet; scopes: what each open block holds of x, the
\* innermost last: none, tdz or init.
Binding(init, tdz, scopes) ==
    IF \E k \in 1..Len(scopes) : scopes[k] # "none"
    THEN scopes[CHOOSE k \in 1..Len(scopes) :
                   scopes[k] # "none" /\ \A n \in (k + 1)..Len(scopes) : scopes[n] = "none"]
    ELSE IF "x" \in tdz THEN "tdz"
    ELSE IF "x" \in init THEN "init"
    ELSE "none"

\* What reading the name throws where b is the binding of x: x alone can
\* be declared.
ReadFails(name, b) ==
    IF name = <<"x">> /\ b = "tdz" THEN Uninitialised ELSE NameNotDefined(name)

CanRead(name, b) == name = <<"x">> /\ b = "init"

\* Number::toString of the literal written with n digits 7: the shortest
\* digits that give the same double, in plain notation below 10^21.
RoundsDown ==
    {20, 22, 23, 26, 31, 34, 42, 46, 51, 53, 54, 55, 56, 58, 64, 72,
     79, 80, 82, 83, 84, 86, 89, 90, 92, 95, 106, 107, 109, 120, 121, 124,
     128, 130, 134, 135, 142, 149, 155, 158, 166, 167, 168, 169, 174, 177, 179, 183,
     186, 188, 189, 191, 195, 203, 204, 209, 214, 216, 222, 224, 226, 228, 230, 231,
     233, 237, 239, 242, 246, 248, 255, 264, 272, 278, 287, 288, 292, 293, 296, 297}
RoundsToFive ==
    {91, 187, 265}
Repeat(ch, n) == [k \in 1..n |-> ch]

Mantissa(n) ==
    IF n \in RoundsToFive THEN Repeat("7", 16) \o <<"5">>
    ELSE IF n \in RoundsDown THEN Repeat("7", 16)
    ELSE Repeat("7", 15) \o <<"8">>

RECURSIVE Decimal(_)
Decimal(n) ==
    IF n < 10 THEN <<HexUpper[n + 1]>> ELSE Append(Decimal(n \div 10), HexUpper[(n % 10) + 1])

NumberToString(n) ==
    IF n <= 16 THEN Repeat("7", n)
    ELSE IF n >= 309 THEN <<"Infinity">>
    ELSE IF n <= 21 THEN Mantissa(n) \o Repeat("0", n - Len(Mantissa(n)))
    ELSE <<"7", ".">> \o Tail(Mantissa(n)) \o <<"e", "+">> \o Decimal(n - 1)

\* String(e), and what a substitution appends: b is the binding of x
Value(str) == [ok |-> TRUE, str |-> str]
EvalExpr(kind, v, b) ==
    CASE kind = "empty" -> Value(<<>>)
      [] kind = "num" -> Value(NumberToString(Len(v)))
      [] kind = "obj" -> Value(<<"[object Object]">>)
      [] kind = "name" ->
           IF CanRead(v, b) THEN Value(<<"1">>) ELSE [ok |-> FALSE, str |-> v]
      [] kind = "objname" ->
           IF CanRead(v, b) THEN Value(<<"[object Object]">>)
           ELSE [ok |-> FALSE, str |-> v]

Echo(log, p, str) == Append(log, [pos |-> p, str |-> str])

RECURSIVE EvalParts(_, _, _)
AfterPart(parts, b, acc, v) ==
    IF v.ok THEN EvalParts(Tail(parts), b, acc \o v.str) ELSE v

EvalParts(parts, b, acc) ==
    IF parts = <<>> THEN Value(acc)
    ELSE IF parts[1].t = "lit" THEN EvalParts(Tail(parts), b, acc \o parts[1].v)
    ELSE AfterPart(parts, b, acc, EvalExpr(parts[1].kind, parts[1].v, b))

\* What the block opened by statement i holds of x when it is entered
Entered(stmts, i) == IF LetsOf(stmts, i) # {} THEN "tdz" ELSE "none"

\* log: what echo wrote so far.
RECURSIVE RunStmts(_, _, _, _, _, _)
\* echo(v), or the throw of the read that failed
EchoOrThrow(stmts, i, init, tdz, scopes, log, v) ==
    IF v.ok THEN RunStmts(stmts, i + 1, init, tdz, scopes, Echo(log, stmts[i].pos, v.str))
    ELSE Thrown(log, init, stmts[i].pos, ReadFails(v.str, Binding(init, tdz, scopes)))

\* An expression statement
ReadOrThrow(stmts, i, init, tdz, scopes, log, v) ==
    IF v.ok THEN RunStmts(stmts, i + 1, init, tdz, scopes, log)
    ELSE Thrown(log, init, stmts[i].pos, ReadFails(v.str, Binding(init, tdz, scopes)))

RunStmts(stmts, i, init, tdz, scopes, log) ==
    IF i > Len(stmts)
    THEN [status |-> "ok", out |-> Flatten(log), log |-> log, ctx |-> init, pos |-> 0,
          exc |-> NoException]
    ELSE IF stmts[i].callee # <<>>
    THEN Thrown(log, init, stmts[i].pos, NameNotDefined(stmts[i].callee))
    ELSE
      CASE stmts[i].op = "echo('k');" ->
             RunStmts(stmts, i + 1, init, tdz, scopes, Echo(log, stmts[i].pos, <<"k">>))
        [] stmts[i].op \in BlockOpeners ->
             RunStmts(stmts, i + 1, init, tdz, Append(scopes, Entered(stmts, i)), log)
        [] stmts[i].op = "}" ->
             RunStmts(stmts, i + 1, init, tdz, SubSeq(scopes, 1, Len(scopes) - 1), log)
        [] stmts[i].op = "let x=1;" ->
             IF scopes = <<>>
             THEN RunStmts(stmts, i + 1, init \cup {"x"}, tdz \ {"x"}, scopes, log)
             ELSE RunStmts(stmts, i + 1, init, tdz,
                           [scopes EXCEPT ![Len(scopes)] = "init"], log)
        [] stmts[i].op = "echo(typeof x);" ->
             IF Binding(init, tdz, scopes) = "tdz"
             THEN Thrown(log, init, stmts[i].pos, Uninitialised)
             ELSE RunStmts(stmts, i + 1, init, tdz, scopes,
                     Echo(log, stmts[i].pos,
                          IF Binding(init, tdz, scopes) = "init"
                          THEN <<"number">> ELSE <<"undefined">>))
        [] stmts[i].op = "throw 0;" -> Thrown(log, init, stmts[i].pos, Primitive("0"))
        [] stmts[i].op = "throw new Error('boom');" ->
             Thrown(log, init, stmts[i].pos, ErrorObject("Error: boom"))
        [] stmts[i].op = "echo(BQ" ->
             EchoOrThrow(stmts, i, init, tdz, scopes, log,
                         EvalParts(stmts[i].arg, Binding(init, tdz, scopes), <<>>))
        [] stmts[i].op = "echo(String(" ->
             EchoOrThrow(stmts, i, init, tdz, scopes, log,
                         EvalExpr(stmts[i].arg.kind, stmts[i].arg.v,
                                  Binding(init, tdz, scopes)))
        [] stmts[i].op = "expr" ->
             ReadOrThrow(stmts, i, init, tdz, scopes, log,
                         EvalExpr(stmts[i].arg.kind, stmts[i].arg.v,
                                  Binding(init, tdz, scopes)))

\* script.run in a context where the names c0 are initialised: a script
\* that declares, at its top level, a name the context already holds throws
\* before it runs.
V8Run(stmts, c0) ==
    IF LetPositions(stmts) # {} /\ "x" \in c0
    THEN Thrown(<<>>, c0, stmts[Min(LetPositions(stmts))].pos, Redeclared)
    ELSE RunStmts(stmts, 1, c0, IF LetPositions(stmts) # {} THEN {"x"} ELSE {}, <<>>, <<>>)

RunCompiled(c, c0) ==
    IF c.status # "ok"
    THEN [status |-> "compile_error", out |-> <<>>, log |-> <<>>, ctx |-> c0,
          pos |-> c.pos, exc |-> ErrorNoFrame("SyntaxError: <message>")]
    ELSE V8Run(c.stmts, c0)

V8CompileAndRun(src, c0) == RunCompiled(V8Compile(src), c0)

(***************************************************************************)
(* Executor::run, Op::Render and Op::Javascript (crates/executor/lib.rs).  *)
(***************************************************************************)
ErrorMarker == "<!-- ERROR -->"

\* format!("\n<!-- ERROR -->\n{}\n", msg)
Diagnostic(msg) == <<"\n", ErrorMarker, "\n">> \o msg \o <<"\n">>

\* An executor that kept the context of the previous Op
ReusedContext(old) == old

\* v8::Context::new: the context of a work item holds no name of an earlier one.
NewContext(old) == {}

\* A render that writes behind what the buffer holds
KeptBuffer(old) == old

\* guard.clear()
ClearedBuffer(old) == <<>>

\* Err(e) of compile_script: the diagnostic pushed to the buffer
CompileFailed(buf) == buf \o Diagnostic(<<"Failed to compile a script block">>)

\* A handler that ignores the failure of script.run
ScriptRunFailedSilent(buf) == buf

\* script.run(..).is_none(): the diagnostic pushed to the buffer
ScriptRunFailed(buf) == buf \o Diagnostic(<<"Script execution failed">>)

\* The closure of Op::Render and the value given to respond_to.send.
\* echoOk: install_echo_fn built the function.
RenderBuffer(r, b0) ==
    CASE r.status = "ok" -> b0 \o r.out
      [] r.status = "compile_error" -> CompileFailed(b0)
      [] r.status = "run_error" -> ScriptRunFailed(b0 \o r.out)

Rendered(r, buf) ==
    [reply |-> buf, buffer |-> buf, ctx |-> r.ctx, status |-> r.status,
     pos |-> r.pos, log |-> r.log, exc |-> r.exc]

RenderWith(r, b0) == Rendered(r, RenderBuffer(r, b0))

Render(blocks, oldctx, oldbuf, echoOk) ==
    IF ~echoOk
    THEN [reply |-> <<"Error: ", "Failed to create echo function">>,
          buffer |-> ClearedBuffer(oldbuf), ctx |-> NewContext(oldctx),
          status |-> "echo_error", pos |-> 0, log |-> <<>>, exc |-> NoException]
    ELSE RenderWith(V8CompileAndRun(blocks_to_js(blocks), NewContext(oldctx)),
                    ClearedBuffer(oldbuf))

\* Op::Javascript: the buffer is not cleared, errors are only logged.
Evaluated(r, oldbuf) ==
    [reply |-> <<>>, buffer |-> oldbuf \o r.out, ctx |-> r.ctx,
     status |-> r.status, pos |-> r.pos, log |-> r.log, exc |-> r.exc]

EvalScript(code, oldctx, oldbuf, echoOk) ==
    IF ~echoOk
    THEN [reply |-> <<>>, buffer |-> oldbuf, ctx |-> NewContext(oldctx),
          status |-> "echo_error", pos |-> 0, log |-> <<>>, exc |-> NoException]
    ELSE Evaluated(V8CompileAndRun(code, NewContext(oldctx)), oldbuf)

(***************************************************************************)
(* run_jhp_blocks_with_origin (crates/executor/v8utils.rs): block by       *)
(* block in one context c; echo writes to the buffer the Html contents     *)
(* are pushed to.                                                          *)
(***************************************************************************)
\* stack_trim.starts_with(&exception_str)
StartsWith(s, t) == Len(s) >= Len(t) /\ SubSeq(s, 1, Len(t)) = t

\* format!("{}:{}:{}", resource_name, line, column): the line and the column
\* are the engine's, and stand here as the tokens <line> and <column>.
Header(resource_name) == resource_name \o <<":", "<line>", ":", "<column>">>

\* scope.message() is None: (fallback_name, 0, 0)
HeaderNoMessage(resource_name) == resource_name \o <<":", "0", ":", "0">>

\* scope.exception() ... unwrap_or_else(|| "Uncaught exception")
ExceptionStr(exc) == IF exc = NoException THEN <<"Uncaught exception">> ELSE exc.str

\* The three shapes of the text: stack_trim is stack.trim()
Formatted(header, exception_str, stack_trim) ==
    IF stack_trim # <<>>
    THEN IF StartsWith(stack_trim, exception_str)
         THEN header \o <<"\n">> \o stack_trim
         ELSE header \o <<"\n">> \o exception_str \o <<"\n">> \o stack_trim
    ELSE header \o <<"\n">> \o exception_str

\* exc: what the TryCatch holds
format_v8_exception(exc, resource_name) ==
    Formatted(IF exc = NoException THEN HeaderNoMessage(resource_name)
              ELSE Header(resource_name),
              ExceptionStr(exc), Trim(exc.stack))

\* resource_name of the Op::Render the HTTP route builds for the index
ResourceName == <<"i", "n", "d", "e", "x", ".", "j", "h", "p">>

push_error(buf, err) == buf \o Diagnostic(err)

\* The source compiled for a Script or Expression block
BlockSource(b) ==
    IF b.kind = "Expression"
    THEN <<"echo(String(">> \o Trim(b.content) \o <<"));">>
    ELSE b.content

RECURSIVE RunBlocksFrom(_, _, _, _, _)
AfterBlock(blocks, resource_name, i, buf, r) ==
    IF r.status = "ok"
    THEN RunBlocksFrom(blocks, resource_name, i + 1, r.ctx, buf \o r.out)
    ELSE [res |-> "Err",
          buf |-> push_error(buf \o r.out, format_v8_exception(r.exc, resource_name)),
          ctx |-> r.ctx, block |-> i, err |-> format_v8_exception(r.exc, resource_name)]

RunBlocksFrom(blocks, resource_name, i, c, buf) ==
    IF i > Len(blocks)
    THEN [res |-> "Ok", buf |-> buf, ctx |-> c, block |-> 0, err |-> <<>>]
    ELSE IF blocks[i].kind = "Html"
    THEN RunBlocksFrom(blocks, resource_name, i + 1, c, buf \o blocks[i].content)
    ELSE AfterBlock(blocks, resource_name, i, buf,
                    V8CompileAndRun(BlockSource(blocks[i]), c))

run_jhp_blocks_with_origin(blocks, resource_name, c0, buf0) ==
    RunBlocksFrom(blocks, resource_name, 1, c0, buf0)

(***************************************************************************)
(* Documents.                                                              *)
(***************************************************************************)
BlockPool ==
    { Html(<<"h">>), Html(<<"\\", "h">>), Html(<<"h", "\\">>),
      Html(<<"$", "{", "x", "}">>),
      Javascript(<<" ", "echo('k');", " ">>), Javascript(<<"let x=1;">>),
      Javascript(<<"echo(typeof x);">>), Javascript(<<"throw 0;">>),
      Javascript(<<"throw new Error('boom');">>),
      Javascript(<<"@">>),
      Expression(<<" ", "x">>) }

RECURSIVE SeqsUpTo(_, _)
SeqsUpTo(S, n) ==
    IF n = 0 THEN {<<>>}
    ELSE LET prev == SeqsUpTo(S, n - 1)
         IN prev \cup {Append(q, x) : q \in prev, x \in S}

Docs == SeqsUpTo(BlockPool, MaxBlocks)

\* Documents and scripts of the pool model, where the traffic matters.
PoolDocs == {<<Html(<<"h">>), Javascript(<<"throw 0;">>)>>}
Scripts == {<<"echo('k');">>, <<"let x=1;", "throw 0;">>}

(***************************************************************************)
(* Ops (crates/executor: enum Op).  respond_to of Op i is the pair         *)
(* sent[i], closed[i].                                                     *)
(***************************************************************************)
\* name: the resource_name of a Render; the other Ops have none.
RenderOp(i, blocks, name) == [kind |-> "Render", id |-> i, arg |-> blocks, name |-> name]
JavascriptOp(i, code) == [kind |-> "Javascript", id |-> i, arg |-> code, name |-> <<>>]
ShutdownOp(i) == [kind |-> "Shutdown", id |-> i, arg |-> <<>>, name |-> <<>>]
NoOp == [kind |-> "None", id |-> 0, arg |-> <<>>, name |-> <<>>]

\* A caller outside ExecutorPool::send
IdleSend == [pc |-> "idle", op |-> NoOp, idx |-> 0, ticket |-> 0]

NoLast == [kind |-> "None", id |-> 0, arg |-> <<>>, name |-> <<>>, status |-> "none",
           pos |-> 0, reply |-> <<>>, log |-> <<>>, exc |-> NoException, stale |-> FALSE]

\* mpsc::channel::<Op>(nb): each mailbox holds nb Ops
MailboxCap == NumExecutors

\* Dropping the Ops of q drops their respond_to: a reply not sent yet never is.
RenderIds(q) == {q[i].id : i \in {j \in 1..Len(q) : q[j].kind = "Render"}}
DropOps(cl, q) == [i \in Ids |-> cl[i] \/ i \in RenderIds(q)]

Init ==
    /\ intake = <<>>
    /\ nextId = 0
    /\ submitted = <<>>
    /\ fwd = [pc |-> "recv", op |-> NoOp, idx |-> 0]
    /\ next_idx = 0
    /\ mailbox = [e \in Execs |-> <<>>]
    /\ pc = [e \in Execs |-> "recv"]
    /\ cur = [e \in Execs |-> NoOp]
    /\ ctx = [e \in Execs |-> {}]
    /\ buffer = [e \in Execs |-> <<>>]
    /\ sent = [i \in Ids |-> <<>>]
    /\ closed = [i \in Ids |-> FALSE]
    /\ dispatched = <<>>
    /\ delivered = [e \in Execs |-> <<>>]
    /\ events = [e \in Execs |-> <<>>]
    /\ prevCtx = [e \in Execs |-> {}]
    /\ last = [e \in Execs |-> NoLast]
    /\ obuf = <<>>
    /\ oin = <<>>
    /\ ores = [res |-> "none", block |-> 0, err |-> <<>>]
    /\ loaded = {}
    /\ installers = <<>>
    /\ obj_names = <<>>
    /\ loaded_w = 0
    /\ lib = [c \in LibNames |-> "absent"]
    /\ th = [t \in Threads |-> IdleThread]
    /\ returns = <<>>
    /\ opens = [k \in Keys |-> 0]
    /\ reopened = {}
    /\ held = [c \in LibNames |-> "none"]
    /\ br = IdleCall
    /\ freeLog = <<>>
    /\ ncalls = 0
    /\ parser = [content |-> <<>>, pos |-> 0, line |-> 1, nesting |-> 0, pc |-> "idle",
                 left |-> 0]
    /\ results = <<>>
    /\ spans = <<>>
    /\ threads = [k \in 1..NumExecutors |-> k - 1]
    /\ threads_lock = 0
    /\ jn = [j \in Joiners |-> IdleJoin]
    /\ joins = <<>>
    /\ rs = [t \in Threads |-> IdleRender]
    /\ glob = [t \in Threads |-> EmptyGlobal]
    /\ all_installers = <<>>
    /\ files = [k \in Keys |-> {}]
    /\ rx_dropped = [i \in Ids |-> FALSE]
    /\ send_errs = {}
    /\ response = [i \in Ids |-> NoResponse]
    /\ live = [e \in Execs |-> {}]
    /\ hr = IdleRequest
    /\ fs_log = <<>>
    /\ nreq = 0
    /\ js = [done |-> FALSE, src |-> <<>>, blocks |-> <<>>]
    /\ stk = [t \in Threads |-> <<>>]
    /\ taken = [t \in Threads |-> 0]
    /\ waiters = {}
    /\ snd = [c \in Callers |-> IdleSend]

\* An HTTP handler (or any holder of the intake sender) submits an Op: the
\* sender is unbounded, send returns at once.
Submit(op) ==
    /\ nextId < MaxItems
    /\ nextId' = nextId + 1
    /\ submitted' = Append(submitted, op.kind)
    /\ intake' = Append(intake, op)
    /\ UNCHANGED <<fwd, next_idx, mailbox, pc, cur, ctx, buffer, sent, closed,
                   dispatched, delivered, events, prevCtx, last, obuf, oin, ores>>
    /\ UNCHANGED extVars

SubmitRender == \E d \in PoolDocs : Submit(RenderOp(nextId + 1, d, ResourceName))
SubmitShutdown == Submit(ShutdownOp(nextId + 1))

\* A counter that a call leaves as it was
fetch_same(n) == n

\* next_idx.fetch_add(1, Relaxed): what the counter holds behind the call,
\* which returns what it held before.  The read and the write are one
\* atomic step.  The counter is a usize; the model does not reach its
\* wrap-around.
fetch_add(n) == n + 1

\* let idx = next_idx.fetch_add(1, Relaxed) % len.max(1)
SendIndex(n) == n % (IF NumExecutors > 1 THEN NumExecutors ELSE 1)

\* forward: rx.recv().await, then the start of send (the fetch_add).  by 0
\* is the forwarder.  Only the forwarder reads the intake, and recv touches
\* nothing but the intake, so a fetch_add of another caller between the recv
\* and the fetch_add gives what the same fetch_add before the recv gives:
\* the two are one step here.
FwdRecv ==
    /\ fwd.pc = "recv"
    /\ intake # <<>>
    /\ intake' = Tail(intake)
    /\ fwd' = [pc |-> "send", op |-> Head(intake), idx |-> SendIndex(next_idx)]
    /\ next_idx' = fetch_add(next_idx)
    /\ dispatched' = Append(dispatched,
          [id |-> Head(intake).id, idx |-> SendIndex(next_idx), ticket |-> next_idx,
           by |-> 0])
    /\ UNCHANGED <<nextId, submitted, mailbox, pc, cur, ctx, buffer, sent, closed,
                   delivered, events, prevCtx, last, obuf, oin, ores>>
    /\ UNCHANGED extVars

\* A channel without a bound
AlwaysRoom(q) == TRUE

\* A bounded channel takes a message while it holds fewer than its capacity.
HasRoom(q) == Len(q) < MailboxCap

\* A forwarder that leaves its loop when a send fails
StopOnError(ok) == IF ok THEN "recv" ELSE "stopped"

\* let _ = self.send(op).await: whatever send returns, the loop goes on.
AfterSend(ok) == "recv"

\* self.senders[idx].send(op).await: waits while the mailbox is full; fails,
\* and the Op is dropped, when the executor's receiver is gone.  Until the
\* receiver is dropped the mailbox takes Ops, also those of an executor that
\* has left its loop.
FwdSend ==
    /\ fwd.pc = "send"
    /\ IF pc[fwd.idx] = "exited"
       THEN /\ closed' = DropOps(closed, <<fwd.op>>)
            /\ UNCHANGED <<mailbox, delivered>>
       ELSE /\ HasRoom(mailbox[fwd.idx])
            /\ mailbox' = [mailbox EXCEPT ![fwd.idx] = Append(@, fwd.op)]
            /\ delivered' = [delivered EXCEPT ![fwd.idx] = Append(@, fwd.op.id)]
            /\ UNCHANGED closed
    /\ fwd' = [pc |-> AfterSend(pc[fwd.idx] # "exited"), op |-> NoOp, idx |-> 0]
    /\ UNCHANGED <<intake, nextId, submitted, next_idx, pc, cur, ctx, buffer, sent,
                   dispatched, events, prevCtx, last, obuf, oin, ores>>
    /\ UNCHANGED extVars

\* A mailbox that yields its newest Op
RecvNewest(q) == q[Len(q)]

\* The Op that receiver.recv() yields.
RecvOp(q) == Head(q)
\* A recv that empties the mailbox
RecvDropsRest(q) == <<>>

RecvRest(q) == Tail(q)

\* An executor that takes Shutdown for nothing and awaits the next Op
ShutdownIgnored(p, e) == [p EXCEPT ![e] = "recv"]

\* Op::Shutdown => break
Break(p, e) == [p EXCEPT ![e] = "leaving"]

\* HandleScope::new, Context::new, ContextScope::new at the head of the arm
\* of Op::Javascript and of Op::Render: the arm of Op id has its context.
EnterScope(l, id) == l \cup {id}

\* An arm whose context is still there when the arm is left
LeakScope(l, id) == l

\* The end of the arm (and the continue of Op::Javascript): the scopes of
\* the arm are dropped, and the context with them.
ExitScope(l, id) == l \ {id}

\* while let Some(op) = self.receiver.recv().await; Op::Shutdown => break:
\* recv takes the Op out of the mailbox, which frees its place
ExecRecv(e) ==
    /\ pc[e] = "recv"
    /\ mailbox[e] # <<>>
    /\ LET op == RecvOp(mailbox[e]) IN
       IF op.kind = "Shutdown"
       THEN /\ pc' = Break(pc, e)
            /\ mailbox' = [mailbox EXCEPT ![e] = RecvRest(@)]
            /\ UNCHANGED <<cur, events, prevCtx, last, live, closed>>
       ELSE /\ pc' = [pc EXCEPT ![e] = "busy"]
            /\ live' = [live EXCEPT ![e] = EnterScope(@, op.id)]
            /\ cur' = [cur EXCEPT ![e] = op]
            /\ mailbox' = [mailbox EXCEPT ![e] = RecvRest(@)]
            /\ events' = [events EXCEPT ![e] = Append(@, <<"begin", op.id>>)]
            /\ prevCtx' = [prevCtx EXCEPT ![e] = ctx[e]]
            /\ last' = [last EXCEPT ![e] = NoLast]
            /\ UNCHANGED closed
    /\ UNCHANGED <<intake, nextId, submitted, fwd, next_idx, ctx, buffer, sent,
                   dispatched, delivered, obuf, oin, ores>>
    /\ UNCHANGED <<rx_dropped, send_errs, response>>
    /\ UNCHANGED exceptReply

\* run has returned and the thread drops its executor: the isolate, then the
\* receiver, and with the receiver the Ops still in the mailbox and their
\* respond_to.  The thread ends with it (nothing but join sees the
\* difference, and join is a step of its own).
ExecDrop(e) ==
    /\ pc[e] = "leaving"
    /\ pc' = [pc EXCEPT ![e] = "exited"]
    /\ closed' = DropOps(closed, mailbox[e])
    /\ mailbox' = [mailbox EXCEPT ![e] = <<>>]
    /\ UNCHANGED <<intake, nextId, submitted, fwd, next_idx, cur, ctx, buffer, sent,
                   dispatched, delivered, events, prevCtx, last, live, obuf, oin, ores>>
    /\ UNCHANGED <<rx_dropped, send_errs, response>>
    /\ UNCHANGED exceptReply

\* A handler that leaves the closure's Err to a ? and never answers
RespondToUnlessError(s, i, body) ==
    IF body # <<>> /\ body[1] = "Error: " THEN s ELSE [s EXCEPT ![i] = Append(@, body)]

\* respond_to.send(body)
RespondTo(s, i, body) == [s EXCEPT ![i] = Append(@, body)]

\* An executor whose thread ends when the peer of respond_to is gone
UnwrapReply(ok) == IF ok THEN "recv" ELSE "exited"

\* let _ = respond_to.send(..): the result is discarded and the loop goes on.
AfterReply(ok) == "recv"

\* oneshot::Sender::send returns Err when the receiver was dropped.
SendOk(op) == ~(op.kind = "Render" /\ rx_dropped[op.id])

\* The body of the match arm of cur[e].
Handle(op, c, buf, echoOk) ==
    IF op.kind = "Render" THEN Render(op.arg, c, buf, echoOk)
    ELSE EvalScript(op.arg, c, buf, echoOk)

Answer(e, op, r) ==
    /\ ctx' = [ctx EXCEPT ![e] = r.ctx]
    /\ buffer' = [buffer EXCEPT ![e] = r.buffer]
    /\ sent' = IF op.kind = "Render" THEN RespondTo(sent, op.id, r.reply) ELSE sent
    /\ send_errs' = IF SendOk(op) THEN send_errs ELSE send_errs \cup {op.id}
    /\ last' = [last EXCEPT ![e] =
                  [kind |-> op.kind, id |-> op.id, arg |-> op.arg, name |-> op.name,
                   status |-> r.status, pos |-> r.pos, reply |-> r.reply,
                   log |-> r.log, exc |-> r.exc, stale |-> buffer[e] # <<>>]]

ExecHandle(e) ==
    /\ pc[e] = "busy"
    /\ \E echoOk \in BOOLEAN :
         Answer(e, cur[e], Handle(cur[e], ctx[e], buffer[e], echoOk))
    /\ pc' = [pc EXCEPT ![e] = AfterReply(SendOk(cur[e]))]
    /\ events' = [events EXCEPT ![e] = Append(@, <<"end", cur[e].id>>)]
    /\ UNCHANGED <<intake, nextId, submitted, fwd, next_idx, mailbox, cur, closed,
                   dispatched, delivered, prevCtx, obuf, oin, ores>>
    /\ live' = [live EXCEPT ![e] = ExitScope(@, cur[e].id)]
    /\ UNCHANGED <<rx_dropped, response>>
    /\ UNCHANGED exceptReply

Next ==
    \/ SubmitRender
    \/ SubmitShutdown
    \/ FwdRecv
    \/ FwdSend
    \/ \E e \in Execs : ExecRecv(e)
    \/ \E e \in Execs : ExecDrop(e)
    \/ \E e \in Execs : ExecHandle(e)

Spec == Init /\ [][Next]_vars

(***************************************************************************)
(* ExecutorPool::send is public and takes &self: besides the forwarder,    *)
(* any task that holds the pool can call it, on any thread.  In the        *)
(* program the forwarder is the only caller; here NumCallers other tasks   *)
(* call it too, each call in its two steps, the fetch_add and the send     *)
(* into the mailbox, with the steps of the others in between.  The         *)
(* executors take no step here (Spec has them): with at most MaxSent Ops   *)
(* no mailbox gets more than it holds, so no send waits for an executor,   *)
(* and what the callers and the forwarder do is what they do next to       *)
(* running executors.                                                      *)
(***************************************************************************)
\* The calls of send made so far by others than the forwarder
Directs == Cardinality({k \in 1..Len(dispatched) : dispatched[k].by # 0})

\* Caller c calls send(op) with an Op it made: the fetch_add and the index
SendFetch(c) ==
    /\ snd[c].pc = "idle"
    /\ nextId < MaxSent
    /\ Directs < MaxDirect
    /\ \E d \in PoolDocs :
          snd' = [snd EXCEPT ![c] = [pc |-> "send",
                                     op |-> RenderOp(nextId + 1, d, ResourceName),
                                     idx |-> SendIndex(next_idx),
                                     ticket |-> next_idx]]
    /\ nextId' = nextId + 1
    /\ submitted' = Append(submitted, "Render")
    /\ next_idx' = fetch_add(next_idx)
    /\ dispatched' = Append(dispatched,
          [id |-> nextId + 1, idx |-> SendIndex(next_idx), ticket |-> next_idx, by |-> c])
    /\ UNCHANGED <<intake, fwd, mailbox, pc, cur, ctx, buffer, sent, closed,
                   delivered, events, prevCtx, last, obuf, oin, ores>>
    /\ UNCHANGED exceptSend

\* self.senders[idx].send(op).await of that call
SendPush(c) ==
    /\ snd[c].pc = "send"
    /\ IF pc[snd[c].idx] = "exited"
       THEN /\ closed' = DropOps(closed, <<snd[c].op>>)
            /\ UNCHANGED <<mailbox, delivered>>
       ELSE /\ HasRoom(mailbox[snd[c].idx])
            /\ mailbox' = [mailbox EXCEPT ![snd[c].idx] = Append(@, snd[c].op)]
            /\ delivered' = [delivered EXCEPT ![snd[c].idx] = Append(@, snd[c].op.id)]
            /\ UNCHANGED closed
    /\ snd' = [snd EXCEPT ![c] = IdleSend]
    /\ UNCHANGED <<intake, nextId, submitted, fwd, next_idx, pc, cur, ctx, buffer, sent,
                   dispatched, events, prevCtx, last, obuf, oin, ores>>
    /\ UNCHANGED exceptSend

\* An Op goes into the intake channel
SubmitFew ==
    /\ nextId < MaxSent
    /\ SubmitRender \/ SubmitShutdown

NextSend ==
    \/ SubmitFew
    \/ FwdRecv
    \/ FwdSend
    \/ \E c \in Callers : SendFetch(c)
    \/ \E c \in Callers : SendPush(c)

SpecSend == Init /\ [][NextSend]_vars

(***************************************************************************)
(* One executor observed alone, with every document of Docs: Ops reach     *)
(* the mailbox of executor 0 one after the other, as the forwarder puts    *)
(* them there.  The last Op is any document of Docs; the Ops before it     *)
(* come from a short list of documents that leave a name in the context    *)
(* or text in the buffer.  After a Render, the same blocks are also handed *)
(* to run_jhp_blocks_with_origin, in a new context and with an empty       *)
(* buffer.                                                                 *)
(***************************************************************************)
EarlierDocs ==
    { <<Javascript(<<"let x=1;">>)>>,
      <<Html(<<"h">>), Javascript(<<"throw 0;">>)>> }

DocsAt(n) == IF n < MaxRenders THEN EarlierDocs ELSE Docs

Deliver(op) ==
    /\ nextId < MaxRenders
    /\ pc[0] = "recv"
    /\ mailbox[0] = <<>>
    /\ nextId' = nextId + 1
    /\ submitted' = Append(submitted, op.kind)
    /\ mailbox' = [mailbox EXCEPT ![0] = <<op>>]
    /\ delivered' = [delivered EXCEPT ![0] = Append(@, op.id)]
    /\ last' = [last EXCEPT ![0] = NoLast]
    /\ obuf' = <<>>
    /\ oin' = <<>>
    /\ ores' = [res |-> "none", block |-> 0, err |-> <<>>]
    /\ UNCHANGED <<intake, fwd, next_idx, pc, cur, ctx, buffer, sent, closed,
                   dispatched, events, prevCtx>>
    /\ UNCHANGED extVars

DeliverRender ==
    \E d \in DocsAt(nextId + 1) : Deliver(RenderOp(nextId + 1, d, ResourceName))
DeliverJavascript == \E c \in Scripts : Deliver(JavascriptOp(nextId + 1, c))

RanBlocks(r) ==
    /\ obuf' = r.buf
    /\ ores' = [res |-> r.res, block |-> r.block, err |-> r.err]

RunBlocks ==
    /\ pc[0] = "recv"
    /\ last[0].kind = "Render"
    /\ ores.res = "none"
    /\ oin' = last[0].arg
    /\ RanBlocks(run_jhp_blocks_with_origin(last[0].arg, last[0].name,
                                            NewContext(ctx[0]), <<>>))
    /\ UNCHANGED <<intake, nextId, submitted, fwd, next_idx, mailbox, pc, cur, ctx, buffer,
                   sent, closed, dispatched, delivered, events, prevCtx, last>>
    /\ UNCHANGED extVars

\* Documents whose control flow spans Script blocks
SpanPool ==
    { Javascript(<<" ", "if(1){", " ">>), Javascript(<<" ", "}", " ">>),
      Html(<<"h">>), Javascript(<<"echo('k');">>), Expression(<<" ", "7">>) }

SpanDocs == SeqsUpTo(SpanPool, MaxSpan)

SpanDocsAt(n) == IF n < MaxRenders THEN EarlierDocs ELSE SpanDocs

DeliverSpan ==
    \E d \in SpanDocsAt(nextId + 1) : Deliver(RenderOp(nextId + 1, d, ResourceName))

NextPaths ==
    \/ DeliverSpan
    \/ ExecRecv(0)
    \/ ExecHandle(0)
    \/ RunBlocks

SpecPaths == Init /\ [][NextPaths]_vars

NextRender ==
    \/ DeliverRender
    \/ DeliverJavascript
    \/ ExecRecv(0)
    \/ ExecHandle(0)
    \/ RunBlocks

SpecRender == Init /\ [][NextRender]_vars

----------------------------------------------------------------------------
\* Where a submitted Op is, and what became of it

QueueIds(q) == {q[k].id : k \in 1..Len(q)}

InFlight(i) ==
    \/ i \in QueueIds(intake)
    \/ fwd.pc = "send" /\ fwd.op.id = i
    \/ \E e \in Execs : \/ i \in QueueIds(mailbox[e])
                        \/ pc[e] = "busy" /\ cur[e].id = i

Begun(i) == \E e \in Execs : \E k \in 1..Len(events[e]) : events[e][k] = <<"begin", i>>
Handled(i) == \E e \in Execs : \E k \in 1..Len(events[e]) : events[e][k] = <<"end", i>>

SubmittedRenders == {i \in 1..nextId : submitted[i] = "Render"}

\* C1 as stated: every RenderRequest submitted to the intake channel has its
\* reply channel signalled exactly once, also when it sits behind a Shutdown
\* or when its executor has exited. Once the request is in no queue and in no
\* executor's hands, nothing can signal it any more, so by then it must have
\* been signalled once.
C1_SignalledExactlyOnce ==
    \A i \in SubmittedRenders : ~InFlight(i) => Len(sent[i]) = 1

\* C1 as the code has it: the reply channel of a RenderRequest is signalled
\* at most once; it is signalled exactly once if and only if an executor has
\* dequeued and handled the request; a request that sat behind a Shutdown in
\* its mailbox, or whose executor had exited when it was forwarded, is dropped
\* unhandled: its reply channel is closed and never signalled.
C1_SignalledOnceIffHandled ==
    \A i \in SubmittedRenders :
        /\ Len(sent[i]) <= 1
        /\ (Len(sent[i]) = 1) <=> Handled(i)
        /\ closed[i] <=> (~InFlight(i) /\ ~Begun(i))
        /\ ~InFlight(i) => ((Len(sent[i]) = 1) # closed[i])

\* One request answered, with an error text, and another dropped unanswered
C1_Witness ==
    \E i, j \in SubmittedRenders :
        /\ Len(sent[i]) = 1 /\ sent[i][1][1] = "Error: "
        /\ closed[j] /\ sent[j] = <<>>

----------------------------------------------------------------------------
\* The block of a document that a position of blocks_to_js(blocks) lies in:
\* line i of the program is block i, and a line break follows each line but
\* the last.

RECURSIVE LineStart(_, _)
LineStart(blocks, i) ==
    IF i = 1 THEN 1 ELSE LineStart(blocks, i - 1) + Len(JsLine(blocks[i - 1])) + 1

BlockOfPos(blocks, p) ==
    LET S == {i \in 1..Len(blocks) : LineStart(blocks, i) <= p}
    IN IF S = {} THEN 0 ELSE CHOOSE i \in S : \A j \in S : j <= i

\* What the statements of block i passed to echo, in call order
EchoedBy(blocks, i, log) ==
    Flatten(SelectSeq(log, LAMBDA w : BlockOfPos(blocks, w.pos) = i))

PrevWasRender(e) ==
    /\ last[e].id > 1
    /\ submitted[last[e].id - 1] = "Render"

DeclaresX(blocks) == \E i \in 1..Len(blocks) : blocks[i] = Javascript(<<"let x=1;">>)

\* C2: when an executor handles Render B right after Render A, a top-level
\* variable that A declared is undefined in B: unless B declares it itself, B
\* never sees its type or its value (typeof x echoes "undefined", reading x
\* fails); and B redeclaring the name never collides with A's declaration: no
\* run-time error is raised at a declaration of B.
C2_FreshContextPerRender ==
    \A e \in Execs :
        LET l == last[e] IN
        (l.kind = "Render" /\ l.status # "echo_error" /\ PrevWasRender(e)
           /\ "x" \in prevCtx[e]) =>
            /\ ~DeclaresX(l.arg) =>
                 /\ \A k \in 1..Len(l.log) : l.log[k].str \notin {<<"number">>, <<"1">>}
                 /\ l.arg = <<Javascript(<<"echo(typeof x);">>)>> =>
                      l.reply = <<"undefined">>
                 /\ l.arg = <<Expression(<<" ", "x">>)>> => l.status = "run_error"
            /\ l.status = "run_error" => blocks_to_js(l.arg)[l.pos] # "let x=1;"
            /\ l.arg = <<Javascript(<<"let x=1;">>)>> => l.status = "ok"

\* A declared x, then B asked for its type and B' declared it again
C2_Witness ==
    /\ last[0].kind = "Render" /\ PrevWasRender(0) /\ "x" \in prevCtx[0]
    /\ \/ last[0].arg = <<Javascript(<<"echo(typeof x);">>)>> /\ last[0].reply = <<"undefined">>
       \/ last[0].arg = <<Javascript(<<"let x=1;">>), Javascript(<<"echo(typeof x);">>)>>
            /\ last[0].reply = <<"number">>

RECURSIVE ExpectedBody(_, _, _)
ExpectedBody(blocks, log, i) ==
    IF i > Len(blocks) THEN <<>>
    ELSE (IF blocks[i].kind = "Html" THEN blocks[i].content
          ELSE EchoedBy(blocks, i, log)) \o ExpectedBody(blocks, log, i + 1)

\* C3 as stated: when no script of the document fails, the body of the reply
\* is the concatenation, in block order, of each Html block's content verbatim
\* and of the strings the Script and Expression blocks passed to echo, in call
\* order.
C3_BodyIsHtmlVerbatimAndEchoes ==
    \A e \in Execs :
        (last[e].kind = "Render" /\ last[e].status = "ok") =>
            last[e].reply = ExpectedBody(last[e].arg, last[e].log, 1)

\* The buffer ends with a diagnostic whose message has n tokens
EndsWithDiagnostic(buf, n) ==
    /\ Len(buf) >= n + 4
    /\ SubSeq(buf, Len(buf) - n - 3, Len(buf) - n - 1) = <<"\n", ErrorMarker, "\n">>
    /\ buf[Len(buf)] = "\n"

BodyBeforeDiagnostic(buf, n) == SubSeq(buf, 1, Len(buf) - n - 4)

\* C10: when block k of a render raises a compile-time or run-time error, a
\* diagnostic that starts (after a line break) with the marker <!-- ERROR -->
\* ends the buffer, and no block after k has run: everything before the
\* diagnostic was echoed by blocks up to k. The same holds for the
\* block-by-block runner, whose result is the one of the document cut after k.
C10_ErrorEndsRender ==
    /\ \A e \in Execs :
         LET l == last[e] IN
         (l.kind = "Render" /\ l.status \in {"compile_error", "run_error"}) =>
            LET k == BlockOfPos(l.arg, l.pos) IN
            /\ k \in 1..Len(l.arg)
            /\ EndsWithDiagnostic(l.reply, 1)
            /\ BodyBeforeDiagnostic(l.reply, 1) = Flatten(l.log)
            /\ \A n \in 1..Len(l.log) : BlockOfPos(l.arg, l.log[n].pos) <= k
    /\ ores.res = "Err" =>
         /\ ores.block \in 1..Len(oin)
         /\ EndsWithDiagnostic(obuf, Len(ores.err))
         /\ obuf = run_jhp_blocks_with_origin(SubSeq(oin, 1, ores.block), last[0].name,
                                              {}, <<>>).buf

\* The first of two blocks raised at run time with an Html block behind it:
\* the body is the diagnostic alone, under both runners.
C10_Witness ==
    /\ last[0].kind = "Render" /\ last[0].status = "run_error"
    /\ Len(last[0].arg) = 2 /\ BlockOfPos(last[0].arg, last[0].pos) = 1
    /\ last[0].arg[2] = Html(<<"h">>)
    /\ last[0].reply = Diagnostic(<<"Script execution failed">>)
    /\ ores.res = "Err" /\ ores.block = 1 /\ oin = last[0].arg
    /\ obuf = push_error(<<>>, ores.err)

----------------------------------------------------------------------------
\* The entry of dispatched for Op i
EntryOf(i) == dispatched[CHOOSE k \in 1..Len(dispatched) : dispatched[k].id = i]

\* The calls of send that are between their fetch_add and the end of their
\* send into the mailbox: [by, id, idx, ticket]
InSend ==
    {[by |-> c, id |-> snd[c].op.id, idx |-> snd[c].idx, ticket |-> snd[c].ticket] :
        c \in {x \in Callers : snd[x].pc = "send"}}
    \cup (IF fwd.pc = "send"
          THEN {[by |-> 0, id |-> fwd.op.id, idx |-> fwd.idx,
                 ticket |-> EntryOf(fwd.op.id).ticket]}
          ELSE {})

\* The Ops made so far that went through the intake channel
ViaIntake(i) == {j \in 1..i : \A k \in 1..Len(dispatched) :
                                  dispatched[k].id = j => dispatched[k].by = 0}

\* C4: the forwarder dispatches round-robin, and concurrent callers of
\* ExecutorPool::send never get the same value of the counter.  Every call
\* of send, by the forwarder or by another task, draws its own value of the
\* counter: the k-th fetch_add gets k - 1, and its Op goes to executor
\* (k - 1) mod N, so any N consecutive calls reach each of the N executors
\* once; the calls that are under way at the same time hold different
\* values; what reaches the mailbox of an executor was sent to it.  The
\* forwarder takes the items in the order of the intake channel.  As long as
\* the forwarder is the only caller, as it is in the program, the k-th item
\* it takes (counting from 0) is the k-th submitted and goes to executor
\* k mod N.
C4_RoundRobin ==
    /\ next_idx = Len(dispatched)
    /\ \A k \in 1..Len(dispatched) :
         /\ dispatched[k].ticket = k - 1
         /\ dispatched[k].idx = (k - 1) % NumExecutors
    /\ \A j, k \in 1..Len(dispatched) :
         j # k => /\ dispatched[j].ticket # dispatched[k].ticket
                  /\ dispatched[j].id # dispatched[k].id
    /\ \A x, y \in InSend : x # y => x.ticket # y.ticket /\ x.by # y.by
    /\ \A x \in InSend :
         /\ x.ticket < next_idx
         /\ x.idx = x.ticket % NumExecutors
         /\ EntryOf(x.id) = [id |-> x.id, idx |-> x.idx, ticket |-> x.ticket, by |-> x.by]
    /\ \A k \in 1..Len(dispatched) :
         k + NumExecutors - 1 <= Len(dispatched) =>
            /\ {dispatched[j].idx : j \in k..(k + NumExecutors - 1)} = Execs
            /\ \A e \in Execs :
                 Cardinality({j \in k..(k + NumExecutors - 1) : dispatched[j].idx = e}) = 1
    /\ \A e \in Execs : \A n \in 1..Len(delivered[e]) :
         \E k \in 1..Len(dispatched) :
            dispatched[k].id = delivered[e][n] /\ dispatched[k].idx = e
    /\ \A k \in 1..Len(dispatched) :
         dispatched[k].by = 0 =>
            Cardinality(ViaIntake(dispatched[k].id))
               = Cardinality({j \in 1..k : dispatched[j].by = 0})
    /\ Directs = 0 =>
         /\ \A k \in 1..Len(dispatched) :
              dispatched[k].id = k /\ dispatched[k].idx = (dispatched[k].id - 1) % NumExecutors
         /\ \A e \in Execs : \A n \in 1..Len(delivered[e]) :
              (delivered[e][n] - 1) % NumExecutors = e
         /\ fwd.pc = "send" => fwd.idx = (fwd.op.id - 1) % NumExecutors

\* Two callers and the forwarder are in send at the same time, each behind
\* its fetch_add and before its Op is in a mailbox, the forwarder having
\* made a call before theirs and this one behind one of theirs; there are
\* more calls than executors, so the counter has wrapped.
C4_Witness ==
    /\ \A c \in 1..2 : snd[c].pc = "send"
    /\ fwd.pc = "send"
    /\ Len(dispatched) > NumExecutors
    /\ dispatched[1].by = 0
    /\ \E j \in 1..Len(dispatched) :
         dispatched[j].by # 0 /\ EntryOf(fwd.op.id).ticket > dispatched[j].ticket

\* The ids an executor began to handle, in order
BegunSeq(e) == [k \in 1..((Len(events[e]) + 1) \div 2) |-> events[e][2 * k - 1][2]]

\* C5: within one executor the items are handled in the order they were
\* placed in its mailbox, one at a time: the log of an executor is begin a,
\* end a, begin b, end b, ... with a, b, ... the items delivered to it in
\* delivery order, and when b begins the reply of a has been sent.
C5_ExecutorFifo ==
    \A e \in Execs :
        /\ \A k \in 1..Len(events[e]) :
             /\ k % 2 = 1 => events[e][k][1] = "begin"
             /\ k % 2 = 0 => events[e][k] = <<"end", events[e][k - 1][2]>>
        /\ Len(BegunSeq(e)) <= Len(delivered[e])
        /\ \A k \in 1..Len(BegunSeq(e)) : BegunSeq(e)[k] = delivered[e][k]
        /\ (pc[e] = "busy") <=> (Len(events[e]) % 2 = 1)
        /\ pc[e] = "busy" => cur[e].id = BegunSeq(e)[Len(BegunSeq(e))]
        /\ \A k \in 1..Len(BegunSeq(e)) :
             (k < Len(BegunSeq(e)) \/ pc[e] # "busy") =>
                (submitted[BegunSeq(e)[k]] = "Render" => Len(sent[BegunSeq(e)[k]]) = 1)
        /\ \A k \in 1..Len(BegunSeq(e)) :
             (k = Len(BegunSeq(e)) /\ pc[e] = "busy") => sent[BegunSeq(e)[k]] = <<>>

\* Executor 0 is handling the second item delivered to it, and the first has
\* its reply
C5_Witness ==
    /\ pc[0] = "busy"
    /\ Len(events[0]) = 3
    /\ delivered[0] = <<1, 1 + NumExecutors>>
    /\ cur[0].id = 1 + NumExecutors
    /\ Len(sent[1]) = 1

(***************************************************************************)
(* The module registry (crates/engine/src/extensions.rs: ModuleRegistry).  *)
(* Threads call ensure_loaded; loaded_w is the write guard of the loaded   *)
(* set, held from the double check to the return.                          *)
(***************************************************************************)
\* The simple upper-case mappings (UnicodeData, and the characters whose
\* upper case SpecialCasing leaves at one character): LowerCase[k] has the
\* upper case UpperCase[k].
LowerCase ==
    <<"a", "b", "c", "d", "e", "f", "g", "h",
      "i", "j", "k", "l", "m", "n", "o", "p",
      "q", "r", "s", "t", "u", "v", "w", "x",
      "y", "z", "µ", "à", "á", "â", "ã", "ä",
      "å", "æ", "ç", "è", "é", "ê", "ë", "ì",
      "í", "î", "ï", "ð", "ñ", "ò", "ó", "ô",
      "õ", "ö", "ø", "ù", "ú", "û", "ü", "ý",
      "þ", "ÿ", "U+0101", "U+0103", "U+0105", "U+0107", "U+0109", "U+010B",
      "U+010D", "U+010F", "U+0111", "U+0113", "U+0115", "U+0117", "U+0119", "U+011B",
      "U+011D", "U+011F", "U+0121", "U+0123", "U+0125", "U+0127", "U+0129", "U+012B",
      "U+012D", "U+012F", "U+0131", "U+0133", "U+0135", "U+0137", "U+013A", "U+013C",
      "U+013E", "U+0140", "U+0142", "U+0144", "U+0146", "U+0148", "U+014B", "U+014D",
      "U+014F", "U+0151", "U+0153", "U+0155", "U+0157", "U+0159", "U+015B", "U+015D",
      "U+015F", "U+0161", "U+0163", "U+0165", "U+0167", "U+0169", "U+016B", "U+016D",
      "U+016F", "U+0171", "U+0173", "U+0175", "U+0177", "U+017A", "U+017C", "U+017E",
      "U+017F", "U+0180", "U+0183", "U+0185", "U+0188", "U+018C", "U+0192", "U+0195",
      "U+0199", "U+019A", "U+019B", "U+019E", "U+01A1", "U+01A3", "U+01A5", "U+01A8",
      "U+01AD", "U+01B0", "U+01B4", "U+01B6", "U+01B9", "U+01BD", "U+01BF", "U+01C5",
      "U+01C6", "U+01C8", "U+01C9", "U+01CB", "U+01CC", "U+01CE", "U+01D0", "U+01D2",
      "U+01D4", "U+01D6", "U+01D8", "U+01DA", "U+01DC", "U+01DD", "U+01DF", "U+01E1",
      "U+01E3", "U+01E5", "U+01E7", "U+01E9", "U+01EB", "U+01ED", "U+01EF", "U+01F2",
      "U+01F3", "U+01F5", "U+01F9", "U+01FB", "U+01FD", "U+01FF", "U+0201", "U+0203",
      "U+0205", "U+0207", "U+0209", "U+020B", "U+020D", "U+020F", "U+0211", "U+0213",
      "U+0215", "U+0217", "U+0219", "U+021B", "U+021D", "U+021F", "U+0223", "U+0225",
      "U+0227", "U+0229", "U+022B", "U+022D", "U+022F", "U+0231", "U+0233", "U+023C",
      "U+023F", "U+0240", "U+0242", "U+0247", "U+0249", "U+024B", "U+024D", "U+024F",
      "U+0250", "U+0251", "U+0252", "U+0253", "U+0254", "U+0256", "U+0257", "U+0259",
      "U+025B", "U+025C", "U+0260", "U+0261", "U+0263", "U+0264", "U+0265", "U+0266",
      "U+0268", "U+0269", "U+026A", "U+026B", "U+026C", "U+026F", "U+0271", "U+0272",
      "U+0275", "U+027D", "U+0280", "U+0282", "U+0283", "U+0287", "U+0288", "U+0289",
      "U+028A", "U+028B", "U+028C", "U+0292", "U+029D", "U+029E", "U+0345", "U+0371",
      "U+0373", "U+0377", "U+037B", "U+037C", "U+037D", "U+03AC", "U+03AD", "U+03AE",
      "U+03AF", "U+03B1", "U+03B2", "U+03B3", "U+03B4", "U+03B5", "U+03B6", "U+03B7",
      "U+03B8", "U+03B9", "U+03BA", "U+03BB", "U+03BC", "U+03BD", "U+03BE", "U+03BF",
      "U+03C0", "U+03C1", "U+03C2", "U+03C3", "U+03C4", "U+03C5", "U+03C6", "U+03C7",
      "U+03C8", "U+03C9", "U+03CA", "U+03CB", "U+03CC", "U+03CD", "U+03CE", "U+03D0",
      "U+03D1", "U+03D5", "U+03D6", "U+03D7", "U+03D9", "U+03DB", "U+03DD", "U+03DF",
      "U+03E1", "U+03E3", "U+03E5", "U+03E7", "U+03E9", "U+03EB", "U+03ED", "U+03EF",
      "U+03F0", "U+03F1", "U+03F2", "U+03F3", "U+03F5", "U+03F8", "U+03FB", "U+0430",
      "U+0431", "U+0432", "U+0433", "U+0434", "U+0435", "U+0436", "U+0437", "U+0438",
      "U+0439", "U+043A", "U+043B", "U+043C", "U+043D", "U+043E", "U+043F", "U+0440",
      "U+0441", "U+0442", "U+0443", "U+0444", "U+0445", "U+0446", "U+0447", "U+0448",
      "U+0449", "U+044A", "U+044B", "U+044C", "U+044D", "U+044E", "U+044F", "U+0450",
      "U+0451", "U+0452", "U+0453", "U+0454", "U+0455", "U+0456", "U+0457", "U+0458",
      "U+0459", "U+045A", "U+045B", "U+045C", "U+045D", "U+045E", "U+045F", "U+0461",
      "U+0463", "U+0465", "U+0467", "U+0469", "U+046B", "U+046D", "U+046F", "U+0471",
      "U+0473", "U+0475", "U+0477", "U+0479", "U+047B", "U+047D", "U+047F", "U+0481",
      "U+048B", "U+048D", "U+048F", "U+0491", "U+0493", "U+0495", "U+0497", "U+0499",
      "U+049B", "U+049D", "U+049F", "U+04A1", "U+04A3", "U+04A5", "U+04A7", "U+04A9",
      "U+04AB", "U+04AD", "U+04AF", "U+04B1", "U+04B3", "U+04B5", "U+04B7", "U+04B9",
      "U+04BB", "U+04BD", "U+04BF", "U+04C2", "U+04C4", "U+04C6", "U+04C8", "U+04CA",
      "U+04CC", "U+04CE", "U+04CF", "U+04D1", "U+04D3", "U+04D5", "U+04D7", "U+04D9",
      "U+04DB", "U+04DD", "U+04DF", "U+04E1", "U+04E3", "U+04E5", "U+04E7", "U+04E9",
      "U+04EB", "U+04ED", "U+04EF", "U+04F1", "U+04F3", "U+04F5", "U+04F7", "U+04F9",
      "U+04FB", "U+04FD", "U+04FF", "U+0501", "U+0503", "U+0505", "U+0507", "U+0509",
      "U+050B", "U+050D", "U+050F", "U+0511", "U+0513", "U+0515", "U+0517", "U+0519",
      "U+051B", "U+051D", "U+051F", "U+0521", "U+0523", "U+0525", "U+0527", "U+0529",
      "U+052B", "U+052D", "U+052F", "U+0561", "U+0562", "U+0563", "U+0564", "U+0565",
      "U+0566", "U+0567", "U+0568", "U+0569", "U+056A", "U+056B", "U+056C", "U+056D",
      "U+056E", "U+056F", "U+0570", "U+0571", "U+0572", "U+0573", "U+0574", "U+0575",
      "U+0576", "U+0577", "U+0578", "U+0579", "U+057A", "U+057B", "U+057C", "U+057D",
      "U+057E", "U+057F", "U+0580", "U+0581", "U+0582", "U+0583", "U+0584", "U+0585",
      "U+0586", "U+10D0", "U+10D1", "U+10D2", "U+10D3", "U+10D4", "U+10D5", "U+10D6",
      "U+10D7", "U+10D8", "U+10D9", "U+10DA", "U+10DB", "U+10DC", "U+10DD", "U+10DE",
      "U+10DF", "U+10E0", "U+10E1", "U+10E2", "U+10E3", "U+10E4", "U+10E5", "U+10E6",
      "U+10E7", "U+10E8", "U+10E9", "U+10EA", "U+10EB", "U+10EC", "U+10ED", "U+10EE",
      "U+10EF", "U+10F0", "U+10F1", "U+10F2", "U+10F3", "U+10F4", "U+10F5", "U+10F6",
      "U+10F7", "U+10F8", "U+10F9", "U+10FA", "U+10FD", "U+10FE", "U+10FF", "U+13F8",
      "U+13F9", "U+13FA", "U+13FB", "U+13FC", "U+13FD", "U+1C80", "U+1C81", "U+1C82",
      "U+1C83", "U+1C84", "U+1C85", "U+1C86", "U+1C87", "U+1C88", "U+1C8A", "U+1D79",
      "U+1D7D", "U+1D8E", "U+1E01", "U+1E03", "U+1E05", "U+1E07", "U+1E09", "U+1E0B",
      "U+1E0D", "U+1E0F", "U+1E11", "U+1E13", "U+1E15", "U+1E17", "U+1E19", "U+1E1B",
      "U+1E1D", "U+1E1F", "U+1E21", "U+1E23", "U+1E25", "U+1E27", "U+1E29", "U+1E2B",
      "U+1E2D", "U+1E2F", "U+1E31", "U+1E33", "U+1E35", "U+1E37", "U+1E39", "U+1E3B",
      "U+1E3D", "U+1E3F", "U+1E41", "U+1E43", "U+1E45", "U+1E47", "U+1E49", "U+1E4B",
      "U+1E4D", "U+1E4F", "U+1E51", "U+1E53", "U+1E55", "U+1E57", "U+1E59", "U+1E5B",
      "U+1E5D", "U+1E5F", "U+1E61", "U+1E63", "U+1E65", "U+1E67", "U+1E69", "U+1E6B",
      "U+1E6D", "U+1E6F", "U+1E71", "U+1E73", "U+1E75", "U+1E77", "U+1E79", "U+1E7B",
      "U+1E7D", "U+1E7F", "U+1E81", "U+1E83", "U+1E85", "U+1E87", "U+1E89", "U+1E8B",
      "U+1E8D", "U+1E8F", "U+1E91", "U+1E93", "U+1E95", "U+1E9B", "U+1EA1", "U+1EA3",
      "U+1EA5", "U+1EA7", "U+1EA9", "U+1EAB", "U+1EAD", "U+1EAF", "U+1EB1", "U+1EB3",
      "U+1EB5", "U+1EB7", "U+1EB9", "U+1EBB", "U+1EBD", "U+1EBF", "U+1EC1", "U+1EC3",
      "U+1EC5", "U+1EC7", "U+1EC9", "U+1ECB", "U+1ECD", "U+1ECF", "U+1ED1", "U+1ED3",
      "U+1ED5", "U+1ED7", "U+1ED9", "U+1EDB", "U+1EDD", "U+1EDF", "U+1EE1", "U+1EE3",
      "U+1EE5", "U+1EE7", "U+1EE9", "U+1EEB", "U+1EED", "U+1EEF", "U+1EF1", "U+1EF3",
      "U+1EF5", "U+1EF7", "U+1EF9", "U+1EFB", "U+1EFD", "U+1EFF", "U+1F00", "U+1F01",
      "U+1F02", "U+1F03", "U+1F04", "U+1F05", "U+1F06", "U+1F07", "U+1F10", "U+1F11",
      "U+1F12", "U+1F13", "U+1F14", "U+1F15", "U+1F20", "U+1F21", "U+1F22", "U+1F23",
      "U+1F24", "U+1F25", "U+1F26", "U+1F27", "U+1F30", "U+1F31", "U+1F32", "U+1F33",
      "U+1F34", "U+1F35", "U+1F36", "U+1F37", "U+1F40", "U+1F41", "U+1F42", "U+1F43",
      "U+1F44", "U+1F45", "U+1F51", "U+1F53", "U+1F55", "U+1F57", "U+1F60", "U+1F61",
      "U+1F62", "U+1F63", "U+1F64", "U+1F65", "U+1F66", "U+1F67", "U+1F70", "U+1F71",
      "U+1F72", "U+1F73", "U+1F74", "U+1F75", "U+1F76", "U+1F77", "U+1F78", "U+1F79",
      "U+1F7A", "U+1F7B", "U+1F7C", "U+1F7D", "U+1FB0", "U+1FB1", "U+1FBE", "U+1FD0",
      "U+1FD1", "U+1FE0", "U+1FE1", "U+1FE5", "U+214E", "U+2170", "U+2171", "U+2172",
      "U+2173", "U+2174", "U+2175", "U+2176", "U+2177", "U+2178", "U+2179", "U+217A",
      "U+217B", "U+217C", "U+217D", "U+217E", "U+217F", "U+2184", "U+24D0", "U+24D1",
      "U+24D2", "U+24D3", "U+24D4", "U+24D5", "U+24D6", "U+24D7", "U+24D8", "U+24D9",
      "U+24DA", "U+24DB", "U+24DC", "U+24DD", "U+24DE", "U+24DF", "U+24E0", "U+24E1",
      "U+24E2", "U+24E3", "U+24E4", "U+24E5", "U+24E6", "U+24E7", "U+24E8", "U+24E9",
      "U+2C30", "U+2C31", "U+2C32", "U+2C33", "U+2C34", "U+2C35", "U+2C36", "U+2C37",
      "U+2C38", "U+2C39", "U+2C3A", "U+2C3B", "U+2C3C", "U+2C3D", "U+2C3E", "U+2C3F",
      "U+2C40", "U+2C41", "U+2C42", "U+2C43", "U+2C44", "U+2C45", "U+2C46", "U+2C47",
      "U+2C48", "U+2C49", "U+2C4A", "U+2C4B", "U+2C4C", "U+2C4D", "U+2C4E", "U+2C4F",
      "U+2C50", "U+2C51", "U+2C52", "U+2C53", "U+2C54", "U+2C55", "U+2C56", "U+2C57",
      "U+2C58", "U+2C59", "U+2C5A", "U+2C5B", "U+2C5C", "U+2C5D", "U+2C5E", "U+2C5F",
      "U+2C61", "U+2C65", "U+2C66", "U+2C68", "U+2C6A", "U+2C6C", "U+2C73", "U+2C76",
      "U+2C81", "U+2C83", "U+2C85", "U+2C87", "U+2C89", "U+2C8B", "U+2C8D", "U+2C8F",
      "U+2C91", "U+2C93", "U+2C95", "U+2C97", "U+2C99", "U+2C9B", "U+2C9D", "U+2C9F",
      "U+2CA1", "U+2CA3", "U+2CA5", "U+2CA7", "U+2CA9", "U+2CAB", "U+2CAD", "U+2CAF",
      "U+2CB1", "U+2CB3", "U+2CB5", "U+2CB7", "U+2CB9", "U+2CBB", "U+2CBD", "U+2CBF",
      "U+2CC1", "U+2CC3", "U+2CC5", "U+2CC7", "U+2CC9", "U+2CCB", "U+2CCD", "U+2CCF",
      "U+2CD1", "U+2CD3", "U+2CD5", "U+2CD7", "U+2CD9", "U+2CDB", "U+2CDD", "U+2CDF",
      "U+2CE1", "U+2CE3", "U+2CEC", "U+2CEE", "U+2CF3", "U+2D00", "U+2D01", "U+2D02",
      "U+2D03", "U+2D04", "U+2D05", "U+2D06", "U+2D07", "U+2D08", "U+2D09", "U+2D0A",
      "U+2D0B", "U+2D0C", "U+2D0D", "U+2D0E", "U+2D0F", "U+2D10", "U+2D11", "U+2D12",
      "U+2D13", "U+2D14", "U+2D15", "U+2D16", "U+2D17", "U+2D18", "U+2D19", "U+2D1A",
      "U+2D1B", "U+2D1C", "U+2D1D", "U+2D1E", "U+2D1F", "U+2D20", "U+2D21", "U+2D22",
      "U+2D23", "U+2D24", "U+2D25", "U+2D27", "U+2D2D", "U+A641", "U+A643", "U+A645",
      "U+A647", "U+A649", "U+A64B", "U+A64D", "U+A64F", "U+A651", "U+A653", "U+A655",
      "U+A657", "U+A659", "U+A65B", "U+A65D", "U+A65F", "U+A661", "U+A663", "U+A665",
      "U+A667", "U+A669", "U+A66B", "U+A66D", "U+A681", "U+A683", "U+A685", "U+A687",
      "U+A689", "U+A68B", "U+A68D", "U+A68F", "U+A691", "U+A693", "U+A695", "U+A697",
      "U+A699", "U+A69B", "U+A723", "U+A725", "U+A727", "U+A729", "U+A72B", "U+A72D",
      "U+A72F", "U+A733", "U+A735", "U+A737", "U+A739", "U+A73B", "U+A73D", "U+A73F",
      "U+A741", "U+A743", "U+A745", "U+A747", "U+A749", "U+A74B", "U+A74D", "U+A74F",
      "U+A751", "U+A753", "U+A755", "U+A757", "U+A759", "U+A75B", "U+A75D", "U+A75F",
      "U+A761", "U+A763", "U+A765", "U+A767", "U+A769", "U+A76B", "U+A76D", "U+A76F",
      "U+A77A", "U+A77C", "U+A77F", "U+A781", "U+A783", "U+A785", "U+A787", "U+A78C",
      "U+A791", "U+A793", "U+A794", "U+A797", "U+A799", "U+A79B", "U+A79D", "U+A79F",
      "U+A7A1", "U+A7A3", "U+A7A5", "U+A7A7", "U+A7A9", "U+A7B5", "U+A7B7", "U+A7B9",
      "U+A7BB", "U+A7BD", "U+A7BF", "U+A7C1", "U+A7C3", "U+A7C8", "U+A7CA", "U+A7CD",
      "U+A7CF", "U+A7D1", "U+A7D3", "U+A7D5", "U+A7D7", "U+A7D9", "U+A7DB", "U+A7F6",
      "U+AB53", "U+AB70", "U+AB71", "U+AB72", "U+AB73", "U+AB74", "U+AB75", "U+AB76",
      "U+AB77", "U+AB78", "U+AB79", "U+AB7A", "U+AB7B", "U+AB7C", "U+AB7D", "U+AB7E",
      "U+AB7F", "U+AB80", "U+AB81", "U+AB82", "U+AB83", "U+AB84", "U+AB85", "U+AB86",
      "U+AB87", "U+AB88", "U+AB89", "U+AB8A", "U+AB8B", "U+AB8C", "U+AB8D", "U+AB8E",
      "U+AB8F", "U+AB90", "U+AB91", "U+AB92", "U+AB93", "U+AB94", "U+AB95", "U+AB96",
      "U+AB97", "U+AB98", "U+AB99", "U+AB9A", "U+AB9B", "U+AB9C", "U+AB9D", "U+AB9E",
      "U+AB9F", "U+ABA0", "U+ABA1", "U+ABA2", "U+ABA3", "U+ABA4", "U+ABA5", "U+ABA6",
      "U+ABA7", "U+ABA8", "U+ABA9", "U+ABAA", "U+ABAB", "U+ABAC", "U+ABAD", "U+ABAE",
      "U+ABAF", "U+ABB0", "U+ABB1", "U+ABB2", "U+ABB3", "U+ABB4", "U+ABB5", "U+ABB6",
      "U+ABB7", "U+ABB8", "U+ABB9", "U+ABBA", "U+ABBB", "U+ABBC", "U+ABBD", "U+ABBE",
      "U+ABBF", "U+FF41", "U+FF42", "U+FF43", "U+FF44", "U+FF45", "U+FF46", "U+FF47",
      "U+FF48", "U+FF49", "U+FF4A", "U+FF4B", "U+FF4C", "U+FF4D", "U+FF4E", "U+FF4F",
      "U+FF50", "U+FF51", "U+FF52", "U+FF53", "U+FF54", "U+FF55", "U+FF56", "U+FF57",
      "U+FF58", "U+FF59", "U+FF5A", "U+10428", "U+10429", "U+1042A", "U+1042B", "U+1042C",
      "U+1042D", "U+1042E", "U+1042F", "U+10430", "U+10431", "U+10432", "U+10433", "U+10434",
      "U+10435", "U+10436", "U+10437", "U+10438", "U+10439", "U+1043A", "U+1043B", "U+1043C",
      "U+1043D", "U+1043E", "U+1043F", "U+10440", "U+10441", "U+10442", "U+10443", "U+10444",
      "U+10445", "U+10446", "U+10447", "U+10448", "U+10449", "U+1044A", "U+1044B", "U+1044C",
      "U+1044D", "U+1044E", "U+1044F", "U+104D8", "U+104D9", "U+104DA", "U+104DB", "U+104DC",
      "U+104DD", "U+104DE", "U+104DF", "U+104E0", "U+104E1", "U+104E2", "U+104E3", "U+104E4",
      "U+104E5", "U+104E6", "U+104E7", "U+104E8", "U+104E9", "U+104EA", "U+104EB", "U+104EC",
      "U+104ED", "U+104EE", "U+104EF", "U+104F0", "U+104F1", "U+104F2", "U+104F3", "U+104F4",
      "U+104F5", "U+104F6", "U+104F7", "U+104F8", "U+104F9", "U+104FA", "U+104FB", "U+10597",
      "U+10598", "U+10599", "U+1059A", "U+1059B", "U+1059C", "U+1059D", "U+1059E", "U+1059F",
      "U+105A0", "U+105A1", "U+105A3", "U+105A4", "U+105A5", "U+105A6", "U+105A7", "U+105A8",
      "U+105A9", "U+105AA", "U+105AB", "U+105AC", "U+105AD", "U+105AE", "U+105AF", "U+105B0",
      "U+105B1", "U+105B3", "U+105B4", "U+105B5", "U+105B6", "U+105B7", "U+105B8", "U+105B9",
      "U+105BB", "U+105BC", "U+10CC0", "U+10CC1", "U+10CC2", "U+10CC3", "U+10CC4", "U+10CC5",
      "U+10CC6", "U+10CC7", "U+10CC8", "U+10CC9", "U+10CCA", "U+10CCB", "U+10CCC", "U+10CCD",
      "U+10CCE", "U+10CCF", "U+10CD0", "U+10CD1", "U+10CD2", "U+10CD3", "U+10CD4", "U+10CD5",
      "U+10CD6", "U+10CD7", "U+10CD8", "U+10CD9", "U+10CDA", "U+10CDB", "U+10CDC", "U+10CDD",
      "U+10CDE", "U+10CDF", "U+10CE0", "U+10CE1", "U+10CE2", "U+10CE3", "U+10CE4", "U+10CE5",
      "U+10CE6", "U+10CE7", "U+10CE8", "U+10CE9", "U+10CEA", "U+10CEB", "U+10CEC", "U+10CED",
      "U+10CEE", "U+10CEF", "U+10CF0", "U+10CF1", "U+10CF2", "U+10D70", "U+10D71", "U+10D72",
      "U+10D73", "U+10D74", "U+10D75", "U+10D76", "U+10D77", "U+10D78", "U+10D79", "U+10D7A",
      "U+10D7B", "U+10D7C", "U+10D7D", "U+10D7E", "U+10D7F", "U+10D80", "U+10D81", "U+10D82",
      "U+10D83", "U+10D84", "U+10D85", "U+118C0", "U+118C1", "U+118C2", "U+118C3", "U+118C4",
      "U+118C5", "U+118C6", "U+118C7", "U+118C8", "U+118C9", "U+118CA", "U+118CB", "U+118CC",
      "U+118CD", "U+118CE", "U+118CF", "U+118D0", "U+118D1", "U+118D2", "U+118D3", "U+118D4",
      "U+118D5", "U+118D6", "U+118D7", "U+118D8", "U+118D9", "U+118DA", "U+118DB", "U+118DC",
      "U+118DD", "U+118DE", "U+118DF", "U+16E60", "U+16E61", "U+16E62", "U+16E63", "U+16E64",
      "U+16E65", "U+16E66", "U+16E67", "U+16E68", "U+16E69", "U+16E6A", "U+16E6B", "U+16E6C",
      "U+16E6D", "U+16E6E", "U+16E6F", "U+16E70", "U+16E71", "U+16E72", "U+16E73", "U+16E74",
      "U+16E75", "U+16E76", "U+16E77", "U+16E78", "U+16E79", "U+16E7A", "U+16E7B", "U+16E7C",
      "U+16E7D", "U+16E7E", "U+16E7F", "U+16EBB", "U+16EBC", "U+16EBD", "U+16EBE", "U+16EBF",
      "U+16EC0", "U+16EC1", "U+16EC2", "U+16EC3", "U+16EC4", "U+16EC5", "U+16EC6", "U+16EC7",
      "U+16EC8", "U+16EC9", "U+16ECA", "U+16ECB", "U+16ECC", "U+16ECD", "U+16ECE", "U+16ECF",
      "U+16ED0", "U+16ED1", "U+16ED2", "U+16ED3", "U+1E922", "U+1E923", "U+1E924", "U+1E925",
      "U+1E926", "U+1E927", "U+1E928", "U+1E929", "U+1E92A", "U+1E92B", "U+1E92C", "U+1E92D",
      "U+1E92E", "U+1E92F", "U+1E930", "U+1E931", "U+1E932", "U+1E933", "U+1E934", "U+1E935",
      "U+1E936", "U+1E937", "U+1E938", "U+1E939", "U+1E93A", "U+1E93B", "U+1E93C", "U+1E93D",
      "U+1E93E", "U+1E93F", "U+1E940", "U+1E941", "U+1E942", "U+1E943">>
UpperCase ==
    <<"A", "B", "C", "D", "E", "F", "G", "H",
      "I", "J", "K", "L", "M", "N", "O", "P",
      "Q", "R", "S", "T", "U", "V", "W", "X",
      "Y", "Z", "U+039C", "À", "Á", "Â", "Ã", "Ä",
      "Å", "Æ", "Ç", "È", "É", "Ê", "Ë", "Ì",
      "Í", "Î", "Ï", "Ð", "Ñ", "Ò", "Ó", "Ô",
      "Õ", "Ö", "Ø", "Ù", "Ú", "Û", "Ü", "Ý",
      "Þ", "U+0178", "U+0100", "U+0102", "U+0104", "U+0106", "U+0108", "U+010A",
      "U+010C", "U+010E", "U+0110", "U+0112", "U+0114", "U+0116", "U+0118", "U+011A",
      "U+011C", "U+011E", "U+0120", "U+0122", "U+0124", "U+0126", "U+0128", "U+012A",
      "U+012C", "U+012E", "I", "U+0132", "U+0134", "U+0136", "U+0139", "U+013B",
      "U+013D", "U+013F", "U+0141", "U+0143", "U+0145", "U+0147", "U+014A", "U+014C",
      "U+014E", "U+0150", "U+0152", "U+0154", "U+0156", "U+0158", "U+015A", "U+015C",
      "U+015E", "U+0160", "U+0162", "U+0164", "U+0166", "U+0168", "U+016A", "U+016C",
      "U+016E", "U+0170", "U+0172", "U+0174", "U+0176", "U+0179", "U+017B", "U+017D",
      "S", "U+0243", "U+0182", "U+0184", "U+0187", "U+018B", "U+0191", "U+01F6",
      "U+0198", "U+023D", "U+A7DC", "U+0220", "U+01A0", "U+01A2", "U+01A4", "U+01A7",
      "U+01AC", "U+01AF", "U+01B3", "U+01B5", "U+01B8", "U+01BC", "U+01F7", "U+01C4",
      "U+01C4", "U+01C7", "U+01C7", "U+01CA", "U+01CA", "U+01CD", "U+01CF", "U+01D1",
      "U+01D3", "U+01D5", "U+01D7", "U+01D9", "U+01DB", "U+018E", "U+01DE", "U+01E0",
      "U+01E2", "U+01E4", "U+01E6", "U+01E8", "U+01EA", "U+01EC", "U+01EE", "U+01F1",
      "U+01F1", "U+01F4", "U+01F8", "U+01FA", "U+01FC", "U+01FE", "U+0200", "U+0202",
      "U+0204", "U+0206", "U+0208", "U+020A", "U+020C", "U+020E", "U+0210", "U+0212",
      "U+0214", "U+0216", "U+0218", "U+021A", "U+021C", "U+021E", "U+0222", "U+0224",
      "U+0226", "U+0228", "U+022A", "U+022C", "U+022E", "U+0230", "U+0232", "U+023B",
      "U+2C7E", "U+2C7F", "U+0241", "U+0246", "U+0248", "U+024A", "U+024C", "U+024E",
      "U+2C6F", "U+2C6D", "U+2C70", "U+0181", "U+0186", "U+0189", "U+018A", "U+018F",
      "U+0190", "U+A7AB", "U+0193", "U+A7AC", "U+0194", "U+A7CB", "U+A78D", "U+A7AA",
      "U+0197", "U+0196", "U+A7AE", "U+2C62", "U+A7AD", "U+019C", "U+2C6E", "U+019D",
      "U+019F", "U+2C64", "U+01A6", "U+A7C5", "U+01A9", "U+A7B1", "U+01AE", "U+0244",
      "U+01B1", "U+01B2", "U+0245", "U+01B7", "U+A7B2", "U+A7B0", "U+0399", "U+0370",
      "U+0372", "U+0376", "U+03FD", "U+03FE", "U+03FF", "U+0386", "U+0388", "U+0389",
      "U+038A", "U+0391", "U+0392", "U+0393", "U+0394", "U+0395", "U+0396", "U+0397",
      "U+0398", "U+0399", "U+039A", "U+039B", "U+039C", "U+039D", "U+039E", "U+039F",
      "U+03A0", "U+03A1", "U+03A3", "U+03A3", "U+03A4", "U+03A5", "U+03A6", "U+03A7",
      "U+03A8", "U+03A9", "U+03AA", "U+03AB", "U+038C", "U+038E", "U+038F", "U+0392",
      "U+0398", "U+03A6", "U+03A0", "U+03CF", "U+03D8", "U+03DA", "U+03DC", "U+03DE",
      "U+03E0", "U+03E2", "U+03E4", "U+03E6", "U+03E8", "U+03EA", "U+03EC", "U+03EE",
      "U+039A", "U+03A1", "U+03F9", "U+037F", "U+0395", "U+03F7", "U+03FA", "U+0410",
      "U+0411", "U+0412", "U+0413", "U+0414", "U+0415", "U+0416", "U+0417", "U+0418",
      "U+0419", "U+041A", "U+041B", "U+041C", "U+041D", "U+041E", "U+041F", "U+0420",
      "U+0421", "U+0422", "U+0423", "U+0424", "U+0425", "U+0426", "U+0427", "U+0428",
      "U+0429", "U+042A", "U+042B", "U+042C", "U+042D", "U+042E", "U+042F", "U+0400",
      "U+0401", "U+0402", "U+0403", "U+0404", "U+0405", "U+0406", "U+0407", "U+0408",
      "U+0409", "U+040A", "U+040B", "U+040C", "U+040D", "U+040E", "U+040F", "U+0460",
      "U+0462", "U+0464", "U+0466", "U+0468", "U+046A", "U+046C", "U+046E", "U+0470",
      "U+0472", "U+0474", "U+0476", "U+0478", "U+047A", "U+047C", "U+047E", "U+0480",
      "U+048A", "U+048C", "U+048E", "U+0490", "U+0492", "U+0494", "U+0496", "U+0498",
      "U+049A", "U+049C", "U+049E", "U+04A0", "U+04A2", "U+04A4", "U+04A6", "U+04A8",
      "U+04AA", "U+04AC", "U+04AE", "U+04B0", "U+04B2", "U+04B4", "U+04B6", "U+04B8",
      "U+04BA", "U+04BC", "U+04BE", "U+04C1", "U+04C3", "U+04C5", "U+04C7", "U+04C9",
      "U+04CB", "U+04CD", "U+04C0", "U+04D0", "U+04D2", "U+04D4", "U+04D6", "U+04D8",
      "U+04DA", "U+04DC", "U+04DE", "U+04E0", "U+04E2", "U+04E4", "U+04E6", "U+04E8",
      "U+04EA", "U+04EC", "U+04EE", "U+04F0", "U+04F2", "U+04F4", "U+04F6", "U+04F8",
      "U+04FA", "U+04FC", "U+04FE", "U+0500", "U+0502", "U+0504", "U+0506", "U+0508",
      "U+050A", "U+050C", "U+050E", "U+0510", "U+0512", "U+0514", "U+0516", "U+0518",
      "U+051A", "U+051C", "U+051E", "U+0520", "U+0522", "U+0524", "U+0526", "U+0528",
      "U+052A", "U+052C", "U+052E", "U+0531", "U+0532", "U+0533", "U+0534", "U+0535",
      "U+0536", "U+0537", "U+0538", "U+0539", "U+053A", "U+053B", "U+053C", "U+053D",
      "U+053E", "U+053F", "U+0540", "U+0541", "U+0542", "U+0543", "U+0544", "U+0545",
      "U+0546", "U+0547", "U+0548", "U+0549", "U+054A", "U+054B", "U+054C", "U+054D",
      "U+054E", "U+054F", "U+0550", "U+0551", "U+0552", "U+0553", "U+0554", "U+0555",
      "U+0556", "U+1C90", "U+1C91", "U+1C92", "U+1C93", "U+1C94", "U+1C95", "U+1C96",
      "U+1C97", "U+1C98", "U+1C99", "U+1C9A", "U+1C9B", "U+1C9C", "U+1C9D", "U+1C9E",
      "U+1C9F", "U+1CA0", "U+1CA1", "U+1CA2", "U+1CA3", "U+1CA4", "U+1CA5", "U+1CA6",
      "U+1CA7", "U+1CA8", "U+1CA9", "U+1CAA", "U+1CAB", "U+1CAC", "U+1CAD", "U+1CAE",
      "U+1CAF", "U+1CB0", "U+1CB1", "U+1CB2", "U+1CB3", "U+1CB4", "U+1CB5", "U+1CB6",
      "U+1CB7", "U+1CB8", "U+1CB9", "U+1CBA", "U+1CBD", "U+1CBE", "U+1CBF", "U+13F0",
      "U+13F1", "U+13F2", "U+13F3", "U+13F4", "U+13F5", "U+0412", "U+0414", "U+041E",
      "U+0421", "U+0422", "U+0422", "U+042A", "U+0462", "U+A64A", "U+1C89", "U+A77D",
      "U+2C63", "U+A7C6", "U+1E00", "U+1E02", "U+1E04", "U+1E06", "U+1E08", "U+1E0A",
      "U+1E0C", "U+1E0E", "U+1E10", "U+1E12", "U+1E14", "U+1E16", "U+1E18", "U+1E1A",
      "U+1E1C", "U+1E1E", "U+1E20", "U+1E22", "U+1E24", "U+1E26", "U+1E28", "U+1E2A",
      "U+1E2C", "U+1E2E", "U+1E30", "U+1E32", "U+1E34", "U+1E36", "U+1E38", "U+1E3A",
      "U+1E3C", "U+1E3E", "U+1E40", "U+1E42", "U+1E44", "U+1E46", "U+1E48", "U+1E4A",
      "U+1E4C", "U+1E4E", "U+1E50", "U+1E52", "U+1E54", "U+1E56", "U+1E58", "U+1E5A",
      "U+1E5C", "U+1E5E", "U+1E60", "U+1E62", "U+1E64", "U+1E66", "U+1E68", "U+1E6A",
      "U+1E6C", "U+1E6E", "U+1E70", "U+1E72", "U+1E74", "U+1E76", "U+1E78", "U+1E7A",
      "U+1E7C", "U+1E7E", "U+1E80", "U+1E82", "U+1E84", "U+1E86", "U+1E88", "U+1E8A",
      "U+1E8C", "U+1E8E", "U+1E90", "U+1E92", "U+1E94", "U+1E60", "U+1EA0", "U+1EA2",
      "U+1EA4", "U+1EA6", "U+1EA8", "U+1EAA", "U+1EAC", "U+1EAE", "U+1EB0", "U+1EB2",
      "U+1EB4", "U+1EB6", "U+1EB8", "U+1EBA", "U+1EBC", "U+1EBE", "U+1EC0", "U+1EC2",
      "U+1EC4", "U+1EC6", "U+1EC8", "U+1ECA", "U+1ECC", "U+1ECE", "U+1ED0", "U+1ED2",
      "U+1ED4", "U+1ED6", "U+1ED8", "U+1EDA", "U+1EDC", "U+1EDE", "U+1EE0", "U+1EE2",
      "U+1EE4", "U+1EE6", "U+1EE8", "U+1EEA", "U+1EEC", "U+1EEE", "U+1EF0", "U+1EF2",
      "U+1EF4", "U+1EF6", "U+1EF8", "U+1EFA", "U+1EFC", "U+1EFE", "U+1F08", "U+1F09",
      "U+1F0A", "U+1F0B", "U+1F0C", "U+1F0D", "U+1F0E", "U+1F0F", "U+1F18", "U+1F19",
      "U+1F1A", "U+1F1B", "U+1F1C", "U+1F1D", "U+1F28", "U+1F29", "U+1F2A", "U+1F2B",
      "U+1F2C", "U+1F2D", "U+1F2E", "U+1F2F", "U+1F38", "U+1F39", "U+1F3A", "U+1F3B",
      "U+1F3C", "U+1F3D", "U+1F3E", "U+1F3F", "U+1F48", "U+1F49", "U+1F4A", "U+1F4B",
      "U+1F4C", "U+1F4D", "U+1F59", "U+1F5B", "U+1F5D", "U+1F5F", "U+1F68", "U+1F69",
      "U+1F6A", "U+1F6B", "U+1F6C", "U+1F6D", "U+1F6E", "U+1F6F", "U+1FBA", "U+1FBB",
      "U+1FC8", "U+1FC9", "U+1FCA", "U+1FCB", "U+1FDA", "U+1FDB", "U+1FF8", "U+1FF9",
      "U+1FEA", "U+1FEB", "U+1FFA", "U+1FFB", "U+1FB8", "U+1FB9", "U+0399", "U+1FD8",
      "U+1FD9", "U+1FE8", "U+1FE9", "U+1FEC", "U+2132", "U+2160", "U+2161", "U+2162",
      "U+2163", "U+2164", "U+2165", "U+2166", "U+2167", "U+2168", "U+2169", "U+216A",
      "U+216B", "U+216C", "U+216D", "U+216E", "U+216F", "U+2183", "U+24B6", "U+24B7",
      "U+24B8", "U+24B9", "U+24BA", "U+24BB", "U+24BC", "U+24BD", "U+24BE", "U+24BF",
      "U+24C0", "U+24C1", "U+24C2", "U+24C3", "U+24C4", "U+24C5", "U+24C6", "U+24C7",
      "U+24C8", "U+24C9", "U+24CA", "U+24CB", "U+24CC", "U+24CD", "U+24CE", "U+24CF",
      "U+2C00", "U+2C01", "U+2C02", "U+2C03", "U+2C04", "U+2C05", "U+2C06", "U+2C07",
      "U+2C08", "U+2C09", "U+2C0A", "U+2C0B", "U+2C0C", "U+2C0D", "U+2C0E", "U+2C0F",
      "U+2C10", "U+2C11", "U+2C12", "U+2C13", "U+2C14", "U+2C15", "U+2C16", "U+2C17",
      "U+2C18", "U+2C19", "U+2C1A", "U+2C1B", "U+2C1C", "U+2C1D", "U+2C1E", "U+2C1F",
      "U+2C20", "U+2C21", "U+2C22", "U+2C23", "U+2C24", "U+2C25", "U+2C26", "U+2C27",
      "U+2C28", "U+2C29", "U+2C2A", "U+2C2B", "U+2C2C", "U+2C2D", "U+2C2E", "U+2C2F",
      "U+2C60", "U+023A", "U+023E", "U+2C67", "U+2C69", "U+2C6B", "U+2C72", "U+2C75",
      "U+2C80", "U+2C82", "U+2C84", "U+2C86", "U+2C88", "U+2C8A", "U+2C8C", "U+2C8E",
      "U+2C90", "U+2C92", "U+2C94", "U+2C96", "U+2C98", "U+2C9A", "U+2C9C", "U+2C9E",
      "U+2CA0", "U+2CA2", "U+2CA4", "U+2CA6", "U+2CA8", "U+2CAA", "U+2CAC", "U+2CAE",
      "U+2CB0", "U+2CB2", "U+2CB4", "U+2CB6", "U+2CB8", "U+2CBA", "U+2CBC", "U+2CBE",
      "U+2CC0", "U+2CC2", "U+2CC4", "U+2CC6", "U+2CC8", "U+2CCA", "U+2CCC", "U+2CCE",
      "U+2CD0", "U+2CD2", "U+2CD4", "U+2CD6", "U+2CD8", "U+2CDA", "U+2CDC", "U+2CDE",
      "U+2CE0", "U+2CE2", "U+2CEB", "U+2CED", "U+2CF2", "U+10A0", "U+10A1", "U+10A2",
      "U+10A3", "U+10A4", "U+10A5", "U+10A6", "U+10A7", "U+10A8", "U+10A9", "U+10AA",
      "U+10AB", "U+10AC", "U+10AD", "U+10AE", "U+10AF", "U+10B0", "U+10B1", "U+10B2",
      "U+10B3", "U+10B4", "U+10B5", "U+10B6", "U+10B7", "U+10B8", "U+10B9", "U+10BA",
      "U+10BB", "U+10BC", "U+10BD", "U+10BE", "U+10BF", "U+10C0", "U+10C1", "U+10C2",
      "U+10C3", "U+10C4", "U+10C5", "U+10C7", "U+10CD", "U+A640", "U+A642", "U+A644",
      "U+A646", "U+A648", "U+A64A", "U+A64C", "U+A64E", "U+A650", "U+A652", "U+A654",
      "U+A656", "U+A658", "U+A65A", "U+A65C", "U+A65E", "U+A660", "U+A662", "U+A664",
      "U+A666", "U+A668", "U+A66A", "U+A66C", "U+A680", "U+A682", "U+A684", "U+A686",
      "U+A688", "U+A68A", "U+A68C", "U+A68E", "U+A690", "U+A692", "U+A694", "U+A696",
      "U+A698", "U+A69A", "U+A722", "U+A724", "U+A726", "U+A728", "U+A72A", "U+A72C",
      "U+A72E", "U+A732", "U+A734", "U+A736", "U+A738", "U+A73A", "U+A73C", "U+A73E",
      "U+A740", "U+A742", "U+A744", "U+A746", "U+A748", "U+A74A", "U+A74C", "U+A74E",
      "U+A750", "U+A752", "U+A754", "U+A756", "U+A758", "U+A75A", "U+A75C", "U+A75E",
      "U+A760", "U+A762", "U+A764", "U+A766", "U+A768", "U+A76A", "U+A76C", "U+A76E",
      "U+A779", "U+A77B", "U+A77E", "U+A780", "U+A782", "U+A784", "U+A786", "U+A78B",
      "U+A790", "U+A792", "U+A7C4", "U+A796", "U+A798", "U+A79A", "U+A79C", "U+A79E",
      "U+A7A0", "U+A7A2", "U+A7A4", "U+A7A6", "U+A7A8", "U+A7B4", "U+A7B6", "U+A7B8",
      "U+A7BA", "U+A7BC", "U+A7BE", "U+A7C0", "U+A7C2", "U+A7C7", "U+A7C9", "U+A7CC",
      "U+A7CE", "U+A7D0", "U+A7D2", "U+A7D4", "U+A7D6", "U+A7D8", "U+A7DA", "U+A7F5",
      "U+A7B3", "U+13A0", "U+13A1", "U+13A2", "U+13A3", "U+13A4", "U+13A5", "U+13A6",
      "U+13A7", "U+13A8", "U+13A9", "U+13AA", "U+13AB", "U+13AC", "U+13AD", "U+13AE",
      "U+13AF", "U+13B0", "U+13B1", "U+13B2", "U+13B3", "U+13B4", "U+13B5", "U+13B6",
      "U+13B7", "U+13B8", "U+13B9", "U+13BA", "U+13BB", "U+13BC", "U+13BD", "U+13BE",
      "U+13BF", "U+13C0", "U+13C1", "U+13C2", "U+13C3", "U+13C4", "U+13C5", "U+13C6",
      "U+13C7", "U+13C8", "U+13C9", "U+13CA", "U+13CB", "U+13CC", "U+13CD", "U+13CE",
      "U+13CF", "U+13D0", "U+13D1", "U+13D2", "U+13D3", "U+13D4", "U+13D5", "U+13D6",
      "U+13D7", "U+13D8", "U+13D9", "U+13DA", "U+13DB", "U+13DC", "U+13DD", "U+13DE",
      "U+13DF", "U+13E0", "U+13E1", "U+13E2", "U+13E3", "U+13E4", "U+13E5", "U+13E6",
      "U+13E7", "U+13E8", "U+13E9", "U+13EA", "U+13EB", "U+13EC", "U+13ED", "U+13EE",
      "U+13EF", "U+FF21", "U+FF22", "U+FF23", "U+FF24", "U+FF25", "U+FF26", "U+FF27",
      "U+FF28", "U+FF29", "U+FF2A", "U+FF2B", "U+FF2C", "U+FF2D", "U+FF2E", "U+FF2F",
      "U+FF30", "U+FF31", "U+FF32", "U+FF33", "U+FF34", "U+FF35", "U+FF36", "U+FF37",
      "U+FF38", "U+FF39", "U+FF3A", "U+10400", "U+10401", "U+10402", "U+10403", "U+10404",
      "U+10405", "U+10406", "U+10407", "U+10408", "U+10409", "U+1040A", "U+1040B", "U+1040C",
      "U+1040D", "U+1040E", "U+1040F", "U+10410", "U+10411", "U+10412", "U+10413", "U+10414",
      "U+10415", "U+10416", "U+10417", "U+10418", "U+10419", "U+1041A", "U+1041B", "U+1041C",
      "U+1041D", "U+1041E", "U+1041F", "U+10420", "U+10421", "U+10422", "U+10423", "U+10424",
      "U+10425", "U+10426", "U+10427", "U+104B0", "U+104B1", "U+104B2", "U+104B3", "U+104B4",
      "U+104B5", "U+104B6", "U+104B7", "U+104B8", "U+104B9", "U+104BA", "U+104BB", "U+104BC",
      "U+104BD", "U+104BE", "U+104BF", "U+104C0", "U+104C1", "U+104C2", "U+104C3", "U+104C4",
      "U+104C5", "U+104C6", "U+104C7", "U+104C8", "U+104C9", "U+104CA", "U+104CB", "U+104CC",
      "U+104CD", "U+104CE", "U+104CF", "U+104D0", "U+104D1", "U+104D2", "U+104D3", "U+10570",
      "U+10571", "U+10572", "U+10573", "U+10574", "U+10575", "U+10576", "U+10577", "U+10578",
      "U+10579", "U+1057A", "U+1057C", "U+1057D", "U+1057E", "U+1057F", "U+10580", "U+10581",
      "U+10582", "U+10583", "U+10584", "U+10585", "U+10586", "U+10587", "U+10588", "U+10589",
      "U+1058A", "U+1058C", "U+1058D", "U+1058E", "U+1058F", "U+10590", "U+10591", "U+10592",
      "U+10594", "U+10595", "U+10C80", "U+10C81", "U+10C82", "U+10C83", "U+10C84", "U+10C85",
      "U+10C86", "U+10C87", "U+10C88", "U+10C89", "U+10C8A", "U+10C8B", "U+10C8C", "U+10C8D",
      "U+10C8E", "U+10C8F", "U+10C90", "U+10C91", "U+10C92", "U+10C93", "U+10C94", "U+10C95",
      "U+10C96", "U+10C97", "U+10C98", "U+10C99", "U+10C9A", "U+10C9B", "U+10C9C", "U+10C9D",
      "U+10C9E", "U+10C9F", "U+10CA0", "U+10CA1", "U+10CA2", "U+10CA3", "U+10CA4", "U+10CA5",
      "U+10CA6", "U+10CA7", "U+10CA8", "U+10CA9", "U+10CAA", "U+10CAB", "U+10CAC", "U+10CAD",
      "U+10CAE", "U+10CAF", "U+10CB0", "U+10CB1", "U+10CB2", "U+10D50", "U+10D51", "U+10D52",
      "U+10D53", "U+10D54", "U+10D55", "U+10D56", "U+10D57", "U+10D58", "U+10D59", "U+10D5A",
      "U+10D5B", "U+10D5C", "U+10D5D", "U+10D5E", "U+10D5F", "U+10D60", "U+10D61", "U+10D62",
      "U+10D63", "U+10D64", "U+10D65", "U+118A0", "U+118A1", "U+118A2", "U+118A3", "U+118A4",
      "U+118A5", "U+118A6", "U+118A7", "U+118A8", "U+118A9", "U+118AA", "U+118AB", "U+118AC",
      "U+118AD", "U+118AE", "U+118AF", "U+118B0", "U+118B1", "U+118B2", "U+118B3", "U+118B4",
      "U+118B5", "U+118B6", "U+118B7", "U+118B8", "U+118B9", "U+118BA", "U+118BB", "U+118BC",
      "U+118BD", "U+118BE", "U+118BF", "U+16E40", "U+16E41", "U+16E42", "U+16E43", "U+16E44",
      "U+16E45", "U+16E46", "U+16E47", "U+16E48", "U+16E49", "U+16E4A", "U+16E4B", "U+16E4C",
      "U+16E4D", "U+16E4E", "U+16E4F", "U+16E50", "U+16E51", "U+16E52", "U+16E53", "U+16E54",
      "U+16E55", "U+16E56", "U+16E57", "U+16E58", "U+16E59", "U+16E5A", "U+16E5B", "U+16E5C",
      "U+16E5D", "U+16E5E", "U+16E5F", "U+16EA0", "U+16EA1", "U+16EA2", "U+16EA3", "U+16EA4",
      "U+16EA5", "U+16EA6", "U+16EA7", "U+16EA8", "U+16EA9", "U+16EAA", "U+16EAB", "U+16EAC",
      "U+16EAD", "U+16EAE", "U+16EAF", "U+16EB0", "U+16EB1", "U+16EB2", "U+16EB3", "U+16EB4",
      "U+16EB5", "U+16EB6", "U+16EB7", "U+16EB8", "U+1E900", "U+1E901", "U+1E902", "U+1E903",
      "U+1E904", "U+1E905", "U+1E906", "U+1E907", "U+1E908", "U+1E909", "U+1E90A", "U+1E90B",
      "U+1E90C", "U+1E90D", "U+1E90E", "U+1E90F", "U+1E910", "U+1E911", "U+1E912", "U+1E913",
      "U+1E914", "U+1E915", "U+1E916", "U+1E917", "U+1E918", "U+1E919", "U+1E91A", "U+1E91B",
      "U+1E91C", "U+1E91D", "U+1E91E", "U+1E91F", "U+1E920", "U+1E921">>

\* The characters whose upper case is more than one character (SpecialCasing)
LowerCaseSpecial ==
    <<"ß", "U+0149", "U+01F0", "U+0390", "U+03B0", "U+0587", "U+1E96", "U+1E97",
      "U+1E98", "U+1E99", "U+1E9A", "U+1F50", "U+1F52", "U+1F54", "U+1F56", "U+1F80",
      "U+1F81", "U+1F82", "U+1F83", "U+1F84", "U+1F85", "U+1F86", "U+1F87", "U+1F88",
      "U+1F89", "U+1F8A", "U+1F8B", "U+1F8C", "U+1F8D", "U+1F8E", "U+1F8F", "U+1F90",
      "U+1F91", "U+1F92", "U+1F93", "U+1F94", "U+1F95", "U+1F96", "U+1F97", "U+1F98",
      "U+1F99", "U+1F9A", "U+1F9B", "U+1F9C", "U+1F9D", "U+1F9E", "U+1F9F", "U+1FA0",
      "U+1FA1", "U+1FA2", "U+1FA3", "U+1FA4", "U+1FA5", "U+1FA6", "U+1FA7", "U+1FA8",
      "U+1FA9", "U+1FAA", "U+1FAB", "U+1FAC", "U+1FAD", "U+1FAE", "U+1FAF", "U+1FB2",
      "U+1FB3", "U+1FB4", "U+1FB6", "U+1FB7", "U+1FBC", "U+1FC2", "U+1FC3", "U+1FC4",
      "U+1FC6", "U+1FC7", "U+1FCC", "U+1FD2", "U+1FD3", "U+1FD6", "U+1FD7", "U+1FE2",
      "U+1FE3", "U+1FE4", "U+1FE6", "U+1FE7", "U+1FF2", "U+1FF3", "U+1FF4", "U+1FF6",
      "U+1FF7", "U+1FFC", "U+FB00", "U+FB01", "U+FB02", "U+FB03", "U+FB04", "U+FB05",
      "U+FB06", "U+FB13", "U+FB14", "U+FB15", "U+FB16", "U+FB17">>
UpperCaseSpecial ==
    <<<<"S", "S">>, <<"U+02BC", "N">>, <<"J", "U+030C">>, <<"U+0399", "U+0308", "U+0301">>,
      <<"U+03A5", "U+0308", "U+0301">>, <<"U+0535", "U+0552">>, <<"H", "U+0331">>, <<"T", "U+0308">>,
      <<"W", "U+030A">>, <<"Y", "U+030A">>, <<"A", "U+02BE">>, <<"U+03A5", "U+0313">>,
      <<"U+03A5", "U+0313", "U+0300">>, <<"U+03A5", "U+0313", "U+0301">>, <<"U+03A5", "U+0313", "U+0342">>, <<"U+1F08", "U+0399">>,
      <<"U+1F09", "U+0399">>, <<"U+1F0A", "U+0399">>, <<"U+1F0B", "U+0399">>, <<"U+1F0C", "U+0399">>,
      <<"U+1F0D", "U+0399">>, <<"U+1F0E", "U+0399">>, <<"U+1F0F", "U+0399">>, <<"U+1F08", "U+0399">>,
      <<"U+1F09", "U+0399">>, <<"U+1F0A", "U+0399">>, <<"U+1F0B", "U+0399">>, <<"U+1F0C", "U+0399">>,
      <<"U+1F0D", "U+0399">>, <<"U+1F0E", "U+0399">>, <<"U+1F0F", "U+0399">>, <<"U+1F28", "U+0399">>,
      <<"U+1F29", "U+0399">>, <<"U+1F2A", "U+0399">>, <<"U+1F2B", "U+0399">>, <<"U+1F2C", "U+0399">>,
      <<"U+1F2D", "U+0399">>, <<"U+1F2E", "U+0399">>, <<"U+1F2F", "U+0399">>, <<"U+1F28", "U+0399">>,
      <<"U+1F29", "U+0399">>, <<"U+1F2A", "U+0399">>, <<"U+1F2B", "U+0399">>, <<"U+1F2C", "U+0399">>,
      <<"U+1F2D", "U+0399">>, <<"U+1F2E", "U+0399">>, <<"U+1F2F", "U+0399">>, <<"U+1F68", "U+0399">>,
      <<"U+1F69", "U+0399">>, <<"U+1F6A", "U+0399">>, <<"U+1F6B", "U+0399">>, <<"U+1F6C", "U+0399">>,
      <<"U+1F6D", "U+0399">>, <<"U+1F6E", "U+0399">>, <<"U+1F6F", "U+0399">>, <<"U+1F68", "U+0399">>,
      <<"U+1F69", "U+0399">>, <<"U+1F6A", "U+0399">>, <<"U+1F6B", "U+0399">>, <<"U+1F6C", "U+0399">>,
      <<"U+1F6D", "U+0399">>, <<"U+1F6E", "U+0399">>, <<"U+1F6F", "U+0399">>, <<"U+1FBA", "U+0399">>,
      <<"U+0391", "U+0399">>, <<"U+0386", "U+0399">>, <<"U+0391", "U+0342">>, <<"U+0391", "U+0342", "U+0399">>,
      <<"U+0391", "U+0399">>, <<"U+1FCA", "U+0399">>, <<"U+0397", "U+0399">>, <<"U+0389", "U+0399">>,
      <<"U+0397", "U+0342">>, <<"U+0397", "U+0342", "U+0399">>, <<"U+0397", "U+0399">>, <<"U+0399", "U+0308", "U+0300">>,
      <<"U+0399", "U+0308", "U+0301">>, <<"U+0399", "U+0342">>, <<"U+0399", "U+0308", "U+0342">>, <<"U+03A5", "U+0308", "U+0300">>,
      <<"U+03A5", "U+0308", "U+0301">>, <<"U+03A1", "U+0313">>, <<"U+03A5", "U+0342">>, <<"U+03A5", "U+0308", "U+0342">>,
      <<"U+1FFA", "U+0399">>, <<"U+03A9", "U+0399">>, <<"U+038F", "U+0399">>, <<"U+03A9", "U+0342">>,
      <<"U+03A9", "U+0342", "U+0399">>, <<"U+03A9", "U+0399">>, <<"F", "F">>, <<"F", "I">>,
      <<"F", "L">>, <<"F", "F", "I">>, <<"F", "F", "L">>, <<"S", "T">>,
      <<"S", "T">>, <<"U+0544", "U+0546">>, <<"U+0544", "U+0535">>, <<"U+0544", "U+053B">>,
      <<"U+054E", "U+0546">>, <<"U+0544", "U+053D">>>>

\* char::to_uppercase: the upper case of c, one character or more; a
\* character without an upper-case mapping is its own.
ToUpper(c) ==
    IF \E k \in 1..Len(LowerCaseSpecial) : LowerCaseSpecial[k] = c
    THEN UpperCaseSpecial[IndexOf(LowerCaseSpecial, c)]
    ELSE IF \E k \in 1..Len(LowerCase) : LowerCase[k] = c
    THEN <<UpperCase[IndexOf(LowerCase, c)]>>
    ELSE <<c>>

\* PascalCase object name of a module key
object_name_for(module_key) ==
    IF module_key = <<>> THEN <<>>
    ELSE ToUpper(module_key[1]) \o Tail(module_key)

\* The first candidate whose file exists in the directory dir
NoPath == [found |-> FALSE, cand |-> <<>>]
RECURSIVE FirstExisting(_, _)
FirstExisting(cands, dir) ==
    IF cands = <<>> THEN NoPath
    ELSE IF dir[cands[1]] # "absent" THEN [found |-> TRUE, cand |-> cands[1]]
    ELSE FirstExisting(Tail(cands), dir)

lib_path(name, dir) == FirstExisting(module_name_candidates(name), dir)

\* load_module_installer when Library::new of the path found gives a
\* library d (absent: no path was found; killed: the process is ended by
\* SIGSEGV inside the call): whether it succeeds, its error, whether
\* Library::new opened (and leaked) a library
LoadOf(name, d) ==
    CASE d = "killed" ->
           [ok |-> FALSE, err |-> "SIGSEGV", opened |-> TRUE, obj_name |-> <<>>]
      [] d = "absent" ->
           [ok |-> FALSE, err |-> "No native library found for module", opened |-> FALSE,
            obj_name |-> <<>>]
      [] d = "unloadable" ->
           [ok |-> FALSE, err |-> "Failed to load", opened |-> FALSE, obj_name |-> <<>>]
      [] d = "nosym" ->
           [ok |-> FALSE, err |-> "Missing jhp_register_v1", opened |-> TRUE,
            obj_name |-> <<>>]
      [] d \in {"badabi", "empty"} ->
           [ok |-> FALSE, err |-> "Unsupported extension ABI or empty function table",
            opened |-> TRUE, obj_name |-> <<>>]
      [] d = "good" ->
           [ok |-> TRUE, err |-> "", opened |-> TRUE, obj_name |-> object_name_for(name)]

\* Library::new is dlopen, and the library is leaked and never closed: once
\* a library was opened under a path, a later Library::new of that path
\* gives the handle of that library.  h: the library held for the path,
\* "none" when none was opened; d: what the file holds now.  While the file
\* is the one that was opened the call gives that library.  When the file
\* was changed since (in the model a file never changes to its own kind),
\* what the call and the lib.get behind it meet depends on how: a new file
\* put in its place leaves the held library as it was; a file rewritten in
\* place changes the pages the held library is mapped from, and the call
\* answers from the new bytes or the process is killed by SIGSEGV.  The
\* set of what the call can meet.
Opened(d, h) ==
    IF d = "absent" \/ h = "none" THEN {d}
    ELSE IF d = h THEN {h}
    ELSE {h, "killed"} \cup ({d} \ {"unloadable"})

\* The call on the path p: the set of its outcomes
LoadAt(name, p, dir, hld) ==
    IF ~p.found THEN {LoadOf(name, "absent")}
    ELSE {LoadOf(name, o) : o \in Opened(dir[p.cand], hld[p.cand])}

\* load_module_installer on the extension directory dir, in a process that
\* holds the libraries hld: the set of its outcomes
load_module_installer(name, dir, hld) == LoadAt(name, lib_path(name, dir), dir, hld)

\* What the process holds for a path after Library::new of it
HeldAfter(d, h) == IF h = "none" /\ d \notin {"absent", "unloadable"} THEN d ELSE h

\* What the process holds after the call
HeldAfterLoad(p, dir, hld) ==
    IF ~p.found THEN hld
    ELSE [hld EXCEPT ![p.cand] = HeldAfter(dir[p.cand], hld[p.cand])]

LoadErrors == {"No native library found for module", "Failed to load",
               "Missing jhp_register_v1",
               "Unsupported extension ABI or empty function table"}

\* An insert that leaves the map as it was
InsertNothing(m, k, v) == m

\* HashMap::insert
Insert(m, k, v) == [x \in (DOMAIN m) \cup {k} |-> IF x = k THEN v ELSE m[x]]

\* A map rebuilt around the new entry
InsertAlone(m, k, v) == [x \in {k} |-> v]

\* the insert into installers
InsertInstaller(m, k, v) == Insert(m, k, v)

\* A second check that never finds the key
DoubleCheckSkipped(ld, k) == FALSE

\* if loaded_w.contains(key) { return Ok(None) }
DoubleCheck(ld, k) == k \in ld

\* A loader that remembers the key it failed to load
FailedLoadRemembered(ld, k) == ld \cup {k}

\* load_module_installer(..)? returned early: loaded as it was
AfterFailedLoad(ld, k) == ld

LoadsStarted == Len(returns) + Cardinality({t \in Threads : th[t].pc # "idle"})

Return(t, ret) ==
    /\ returns' = Append(returns, [t |-> t, key |-> th[t].key, ret |-> ret,
                                   slow |-> th[t].slow, opened |-> th[t].opened])
    /\ th' = [th EXCEPT ![t] = IdleThread]

\* ensure_loaded(key): the check under the read lock
ReadCheck(t, k) ==
    /\ th[t].pc = "idle"
    /\ LoadsStarted < MaxLoads
    /\ loaded_w = 0
    /\ IF k \in loaded
       THEN /\ returns' = Append(returns, [t |-> t, key |-> k, ret |-> "None",
                                           slow |-> FALSE, opened |-> FALSE])
            /\ th' = th
       ELSE /\ th' = [th EXCEPT ![t] = [IdleThread EXCEPT !.pc = "write", !.key = k]]
            /\ returns' = returns
    /\ UNCHANGED <<loaded, installers, obj_names, loaded_w, lib, opens, reopened, held>>
    /\ UNCHANGED <<poolVars, bridgeVars, laterVars>>

\* self.loaded.write() and the double check
WriteCheck(t) ==
    /\ th[t].pc = "write"
    /\ loaded_w = 0
    /\ IF DoubleCheck(loaded, th[t].key)
       THEN /\ returns' = Append(returns, [t |-> t, key |-> th[t].key, ret |-> "None",
                                           slow |-> TRUE, opened |-> FALSE])
            /\ th' = [th EXCEPT ![t] = IdleThread]
            /\ loaded_w' = loaded_w
       ELSE /\ th' = [th EXCEPT ![t].pc = "load", ![t].slow = TRUE]
            /\ loaded_w' = t
            /\ returns' = returns
    /\ UNCHANGED <<loaded, installers, obj_names, lib, opens, reopened, held>>
    /\ UNCHANGED <<poolVars, bridgeVars, laterVars>>

\* The process is killed: every thread ends, whatever it was doing, and the
\* guards go with the process.
Killed(ts) == [u \in DOMAIN ts |-> [IdleThread EXCEPT !.pc = "killed"]]

\* The call load_module_installer(key, &self.ext_dir)? with the outcome r;
\* n counts the libraries opened for the key
LoadWith(t, k, r, n) ==
    /\ IF r.err = "SIGSEGV"
       THEN UNCHANGED <<opens, held, reopened>>
       ELSE /\ opens' = [opens EXCEPT ![k] = n]
            /\ held' = HeldAfterLoad(lib_path(k, lib), lib, held)
            /\ reopened' = IF r.opened /\ k \in loaded THEN reopened \cup {k}
                           ELSE reopened
    /\ IF r.ok
       THEN /\ th' = [th EXCEPT ![t].pc = "ins_obj", ![t].opened = r.opened,
                                ![t].name = r.obj_name,
                                ![t].inst = [key |-> k, gen |-> n]]
            /\ UNCHANGED <<loaded, loaded_w, returns>>
       ELSE IF r.err = "SIGSEGV"
       THEN /\ th' = Killed(th)
            /\ loaded_w' = 0
            /\ UNCHANGED <<loaded, returns>>
       ELSE /\ loaded' = AfterFailedLoad(loaded, k)
            /\ loaded_w' = 0
            /\ returns' = Append(returns, [t |-> t, key |-> k, ret |-> r.err,
                                           slow |-> TRUE, opened |-> r.opened])
            /\ th' = [th EXCEPT ![t] = IdleThread]

\* load_module_installer(key, &self.ext_dir)?
Load(t) ==
    /\ th[t].pc = "load"
    /\ \E r \in load_module_installer(th[t].key, lib, held) :
          LoadWith(t, th[t].key, r, opens[th[t].key] + (IF r.opened THEN 1 ELSE 0))
    /\ UNCHANGED <<installers, obj_names, lib>>
    /\ UNCHANGED <<poolVars, bridgeVars, laterVars>>

\* self.obj_names.write().unwrap().insert(key, obj_name)
InsertObjName(t) ==
    /\ th[t].pc = "ins_obj"
    /\ obj_names' = Insert(obj_names, th[t].key, th[t].name)
    /\ th' = [th EXCEPT ![t].pc = "ins_inst"]
    /\ UNCHANGED <<loaded, installers, loaded_w, lib, returns, opens, reopened, held>>
    /\ UNCHANGED <<poolVars, bridgeVars, laterVars>>

\* self.installers.write().unwrap().insert(key, installer.clone())
InsertInst(t) ==
    /\ th[t].pc = "ins_inst"
    /\ installers' = InsertInstaller(installers, th[t].key, th[t].inst)
    /\ th' = [th EXCEPT ![t].pc = "ins_loaded"]
    /\ UNCHANGED <<loaded, obj_names, loaded_w, lib, returns, opens, reopened, held>>
    /\ UNCHANGED <<poolVars, bridgeVars, laterVars>>

\* loaded_w.insert(key); Ok(Some(installer)), which drops the write guard
InsertLoaded(t) ==
    /\ th[t].pc = "ins_loaded"
    /\ loaded' = loaded \cup {th[t].key}
    /\ loaded_w' = 0
    /\ Return(t, "Some")
    /\ UNCHANGED <<installers, obj_names, lib, opens, reopened, held>>
    /\ UNCHANGED <<poolVars, bridgeVars, laterVars>>

\* Whether load_module_installer(name, dir) looks at the library name c: c
\* is a candidate of the name and no candidate before it exists
LooksAt(name, c, dir) ==
    \E n \in 1..Len(module_name_candidates(name)) :
        /\ module_name_candidates(name)[n] = c
        /\ \A j \in 1..(n - 1) : dir[module_name_candidates(name)[j]] = "absent"

\* The files put into the extension directory: a library of any kind under
\* the name m, one with an empty function table or a good one under s3, one
\* without the entry symbol or a good one under s, the fallback of s3
FilesFor(c) ==
    IF c = <<"m">> THEN LibStates \ {"absent"}
    ELSE IF c = <<"s", "3">> THEN {"empty", "good"}
    ELSE {"nosym", "good"}

\* The extension directory changes under the running server: the file
\* libjhp_ext_<c>.so is put there or replaced.  Only load_module_installer
\* looks at it, so a change is taken just before a load that looks at c.
\* A file that is not there is put there under any of the names; a file
\* that is there is replaced, by a good library, under the name m.
DiskChange(c) ==
    /\ lib[c] # "good"
    /\ \E t \in Threads : th[t].pc = "load" /\ LooksAt(th[t].key, c, lib)
    /\ \E d \in FilesFor(c) :
         /\ lib[c] = "absent" \/ (d = "good" /\ c = <<"m">>)
         /\ lib' = [lib EXCEPT ![c] = d]
    /\ UNCHANGED <<loaded, installers, obj_names, loaded_w, th, returns, opens, reopened, held>>
    /\ UNCHANGED <<poolVars, bridgeVars, laterVars>>

NextRegistry ==
    \/ \E t \in Threads, k \in Keys : ReadCheck(t, k)
    \/ \E t \in Threads : WriteCheck(t)
    \/ \E t \in Threads : Load(t)
    \/ \E t \in Threads : InsertObjName(t)
    \/ \E t \in Threads : InsertInst(t)
    \/ \E t \in Threads : InsertLoaded(t)
    \/ \E c \in LibNames : DiskChange(c)

SpecRegistry == Init /\ [][NextRegistry]_vars

----------------------------------------------------------------------------
ReturnsOf(k, rets) == {n \in 1..Len(returns) : returns[n].key = k /\ returns[n].ret \in rets}

InLoadPath(t) == th[t].pc \in {"load", "ins_obj", "ins_inst", "ins_loaded"}

\* C6: of the calls of ensure_loaded(k) that race for a key whose load
\* succeeds, exactly one opens the library and registers the module, and it
\* is the only one that gets Some(installer); every other call returns
\* Ok(None), without having opened anything, and only once k is Loaded by
\* the call that got Some; the library of a loaded key is never opened again
\* (the registered installer stays the one of the last open), and only the
\* holder of the write guard is ever past the double check.
C6_SingleLoader ==
    /\ \A k \in Keys :
         /\ Cardinality(ReturnsOf(k, {"Some"})) <= 1
         /\ (k \in loaded) <=> (Cardinality(ReturnsOf(k, {"Some"})) = 1)
         /\ \A n \in ReturnsOf(k, {"Some"}) : returns[n].opened
         /\ \A n \in ReturnsOf(k, {"None"}) :
              /\ ~returns[n].opened
              /\ k \in loaded
              /\ \E m \in ReturnsOf(k, {"Some"}) : m < n
         /\ k \notin reopened
         /\ k \in DOMAIN installers => installers[k] = [key |-> k, gen |-> opens[k]]
    /\ \A t \in Threads : InLoadPath(t) <=> (loaded_w = t)

\* Two threads raced for one key: the second passed the check under the read
\* lock before the first had registered the module, and then got Ok(None)
C6_Witness ==
    \E n, m \in 1..Len(returns) :
        /\ n < m
        /\ returns[n].key = returns[m].key
        /\ returns[n].t # returns[m].t
        /\ returns[n].ret = "Some"
        /\ returns[m].ret = "None" /\ returns[m].slow

\* C7: a failing ensure_loaded(k), whatever the failure (no library, symbol
\* missing, wrong ABI version, empty function table, library not loadable),
\* returns the error, releases the write guard and leaves loaded, installers
\* and obj_names as they were, with k in none of them; and a call returns
\* Ok(None) only for a key that is loaded, so a call after a failure goes to
\* the load again.
C7_FailedLoadLeavesUnknown ==
    [][ /\ \A t \in Threads :
             (th[t].pc = "load" /\ th'[t].pc = "idle") =>
                /\ returns'[Len(returns')].ret \in LoadErrors
                /\ loaded' = loaded /\ installers' = installers /\ obj_names' = obj_names
                /\ th[t].key \notin loaded'
                /\ th[t].key \notin DOMAIN installers'
                /\ th[t].key \notin DOMAIN obj_names'
                /\ loaded_w' = 0
        /\ (Len(returns') > Len(returns) /\ returns'[Len(returns')].ret = "None") =>
              returns'[Len(returns')].key \in loaded
      ]_vars

\* Two failures of different kinds for one key, each followed by a new
\* attempt, the last of which loaded the module
C7_Witness ==
    /\ Len(returns) = 3
    /\ returns[1].key = returns[2].key /\ returns[2].key = returns[3].key
    /\ returns[1].ret = "No native library found for module"
    /\ returns[2].ret \in LoadErrors \ {returns[1].ret}
    /\ returns[3].ret = "Some"
    /\ returns[3].key \in loaded

\* C8: the registry is append-only: no step removes a key from loaded,
\* installers or obj_names, and no step changes the installer or the object
\* name registered for a key.
C8_AppendOnly ==
    [][ /\ loaded \subseteq loaded'
        /\ \A k \in DOMAIN installers :
             k \in DOMAIN installers' /\ installers'[k] = installers[k]
        /\ \A k \in DOMAIN obj_names :
             k \in DOMAIN obj_names' /\ obj_names'[k] = obj_names[k]
      ]_vars

\* Both modules are registered, the second inserted next to the first
C8_Witness ==
    /\ loaded = Keys
    /\ DOMAIN installers = Keys
    /\ \A k \in Keys : obj_names[k] = object_name_for(k) /\ installers[k].key = k

(***************************************************************************)
(* The native call bridge (crates/engine/src/extensions.rs:                *)
(* make_v8_func_from_c_v1): one call of a bound native function.           *)
(***************************************************************************)
\* What (pair_ref.call)(buf) can return
NativeResults == [ok : BOOLEAN, ptr : Ptrs, len : 0..MaxLen]

\* !res.data.ptr.is_null() && res.data.len > 0
HasData(res) == res.ptr # "null" /\ res.len > 0

\* let res = (pair_ref.call)(buf)
BridgeCall ==
    /\ br.pc \in {"idle", "returned"}
    /\ ncalls < MaxCalls
    /\ \E res \in NativeResults :
         br' = [pc |-> "called", res |-> res, read |-> FALSE, rv |-> "undefined",
                threw |-> FALSE]
    /\ freeLog' = <<>>
    /\ ncalls' = ncalls + 1
    /\ UNCHANGED <<poolVars, regVars, laterVars>>

\* if res.ok && has data: the bytes are read and given to JSON.parse, whose
\* value, when it yields one, is the return value; when it yields none, the
\* exception JSON.parse raised stays pending and reaches the calling script.
\* In every other case nothing is read, set or thrown.
BridgeRead ==
    /\ br.pc = "called"
    /\ IF br.res.ok /\ HasData(br.res)
       THEN \E parsed \in BOOLEAN :
              br' = [br EXCEPT !.pc = "read", !.read = TRUE,
                               !.rv = IF parsed THEN "parsed" ELSE "undefined",
                               !.threw = ~parsed]
       ELSE br' = [br EXCEPT !.pc = "read"]
    /\ UNCHANGED <<freeLog, ncalls>>
    /\ UNCHANGED <<poolVars, regVars, laterVars>>

\* Free returned buffer if any, then the callback returns
BridgeFree ==
    /\ br.pc = "read"
    /\ freeLog' = IF HasData(br.res)
                  THEN Append(freeLog, [ptr |-> br.res.ptr, len |-> br.res.len,
                                        read |-> br.read])
                  ELSE freeLog
    /\ br' = [br EXCEPT !.pc = "returned"]
    /\ UNCHANGED ncalls
    /\ UNCHANGED <<poolVars, regVars, laterVars>>

NextBridge == BridgeCall \/ BridgeRead \/ BridgeFree

SpecBridge == Init /\ [][NextBridge]_vars

\* C9 as stated: for every call of a bound native function, whatever ok and
\* whatever data.len (0 included), by the time the call returns the bridge
\* has invoked free_fn exactly once, with the (ptr, len) the call returned,
\* after it finished with data.
C9_FreeExactlyOnce ==
    br.pc = "returned" =>
        /\ Len(freeLog) = 1
        /\ freeLog[1].ptr = br.res.ptr
        /\ freeLog[1].len = br.res.len

\* C21 as stated: when a native function returns ok = false with non-empty
\* data, the call gives the script the parsed JSON payload or throws an
\* error, the same of the two for every such call.
C21_FailedCallReturnsPayloadOrThrows ==
    (br.pc = "returned" /\ ~br.res.ok /\ HasData(br.res)) =>
        (br.rv = "parsed" /\ ~br.threw) \/ (br.rv = "undefined" /\ br.threw)

----------------------------------------------------------------------------
\* The body of the document cut before block k, rendered on its own
PrefixBody(blocks, k) == Render(SubSeq(blocks, 1, k - 1), {}, <<>>, TRUE).reply

\* C11 as stated: when block k of a render fails, by a compile error or by a
\* run-time throw, the reply is a body that holds, before the error trailer,
\* all the output of the blocks before k (what the document cut before k
\* renders to).
C11_PartialOutputBeforeTrailer ==
    \A e \in Execs :
        (last[e].kind = "Render" /\ last[e].status \in {"compile_error", "run_error"}) =>
            /\ Len(sent[last[e].id]) = 1
            /\ EndsWithDiagnostic(last[e].reply, 1)
            /\ BodyBeforeDiagnostic(last[e].reply, 1) =
                  PrefixBody(last[e].arg, BlockOfPos(last[e].arg, last[e].pos))

----------------------------------------------------------------------------
\* The positions of buf that hold tok
Occurrences(buf, tok) == {n \in 1..Len(buf) : buf[n] = tok}

\* C12 as stated: when a Script block of a render throws at run time, the
\* body holds the marker <!-- ERROR -->, then the header
\* <resource>:<line>:<column> naming the resource of the request, then the
\* exception message; the message is there once when the stack trace of the
\* exception begins with it.
C12_ThrowReportedWithHeaderAndMessage ==
    \A e \in Execs :
        LET l == last[e] IN
        (/\ l.kind = "Render" /\ l.status = "run_error"
         /\ l.arg[BlockOfPos(l.arg, l.pos)].kind = "Javascript") =>
            /\ \E n \in Occurrences(l.reply, ErrorMarker) :
                 /\ n + 1 + Len(Header(l.name)) <= Len(l.reply)
                 /\ SubSeq(l.reply, n + 2, n + 1 + Len(Header(l.name))) = Header(l.name)
                 /\ \E m \in Occurrences(l.reply, l.exc.str[1]) :
                      m > n + 1 + Len(Header(l.name))
            /\ StartsWith(l.exc.stack, l.exc.str) =>
                 Cardinality(Occurrences(l.reply, l.exc.str[1])) = 1

----------------------------------------------------------------------------
(***************************************************************************)
(* Parser::set_content and Parser::parse, one block a step.                *)
(***************************************************************************)
\* What a page is made of: the two fences, the sign of an Expression block,
\* white space with and without a line break, an escaped character, and an
\* opening angle that starts no fence.
Pieces == {<<"<", "?">>, <<"?", ">">>, <<"=">>, <<"\n">>, <<" ">>, <<"'">>, <<"<">>}

RECURSIVE ConcatAll(_)
ConcatAll(q) == IF q = <<>> THEN <<>> ELSE q[1] \o ConcatAll(Tail(q))

\* The pages of up to n pieces
Inputs(n) == {ConcatAll(q) : q \in SeqsUpTo(Pieces, n)}

\* The fields of the parser behind set_content(c); left is history, the
\* nesting the parser held when the call was made.
ContentSet(p, c) ==
    [content |-> c, pos |-> 0, line |-> 1, nesting |-> 0, pc |-> "idle",
     left |-> p.nesting]

\* A parse that starts with the nesting the parser holds
ResetCursor(p) == [p EXCEPT !.pos = 0, !.line = 1]

\* The head of parse: self.pos = 0; self.line = 1; self.nesting = 0
Reset(p) == [p EXCEPT !.pos = 0, !.line = 1, !.nesting = 0]

set_content(c) ==
    /\ parser' = ContentSet(parser, c)
    /\ UNCHANGED <<results, spans>>
    /\ UNCHANGED exceptParser

\* One page a parser: set_content is called on a parser that holds none.
SetContent ==
    /\ parser.pc = "idle"
    /\ parser.content = <<>>
    /\ \E c \in Inputs(MaxInput) : set_content(c)

ParseBegin ==
    /\ parser.pc = "idle"
    /\ results = <<>>
    /\ parser' = [Reset(parser) EXCEPT !.pc = "parsing"]
    /\ results' = <<>>
    /\ spans' = <<>>
    /\ UNCHANGED exceptParser

AddBlock(r) ==
    /\ results' = Append(results, r.block)
    /\ spans' = Append(spans, [from |-> parser.pos, to |-> r.pos, closed |-> r.closed])
    /\ parser' = [parser EXCEPT !.pos = r.pos, !.line = r.line, !.nesting = r.nesting]

\* The loop of parse is at a fence / at other text / past the last character
AtFence ==
    /\ parser.pos < Len(parser.content)
    /\ lookahead(parser.content, parser.pos, <<"<", "?">>)

AtText ==
    /\ parser.pos < Len(parser.content)
    /\ ~lookahead(parser.content, parser.pos, <<"<", "?">>)

AtEnd == parser.pos >= Len(parser.content)

ParseJsBlock ==
    /\ parser.pc = "parsing"
    /\ AtFence
    /\ AddBlock(parse_js_block(parser.content, parser.pos, parser.line, parser.nesting))
    /\ UNCHANGED exceptParser

ParseHtmlBlock ==
    /\ parser.pc = "parsing"
    /\ AtText
    /\ AddBlock(parse_html_block(parser.content, parser.pos, parser.line, parser.nesting))
    /\ UNCHANGED exceptParser

ParseReturn ==
    /\ parser.pc = "parsing"
    /\ AtEnd
    /\ parser' = [parser EXCEPT !.pc = "returned"]
    /\ UNCHANGED <<results, spans>>
    /\ UNCHANGED exceptParser

\* blocks_to_js(res.blocks) on the blocks a parse returned
EmitJs ==
    /\ parser.pc = "returned"
    /\ ~js.done
    /\ js' = [done |-> TRUE, src |-> blocks_to_js(results), blocks |-> results]
    /\ UNCHANGED exceptEmit

\* White space a caller puts before and behind the content of a block it
\* hands to blocks_to_js
Paddings == {<<(<<" ">>), (<<>>)>>, <<(<<>>), (<<"\n">>)>>, <<(<<" ">>), (<<" ">>)>>}

\* The blocks with white space put around the content of block i.  The
\* fields of a CodeBlock are public, blocks_to_js takes any blocks.
Padded(blocks, i, pad) ==
    [blocks EXCEPT ![i].content = pad[1] \o @ \o pad[2]]

\* blocks_to_js on blocks the caller has changed after the parse: an
\* Expression block whose content has white space at its ends, which the
\* parser does not make (the Html and Javascript blocks it makes have it).
EmitPadded ==
    /\ parser.pc = "returned"
    /\ ~js.done
    /\ \E i \in 1..Len(results), pad \in Paddings :
          /\ results[i].kind = "Expression"
          /\ js' = [done |-> TRUE, src |-> blocks_to_js(Padded(results, i, pad)),
                    blocks |-> Padded(results, i, pad)]
    /\ UNCHANGED exceptEmit

NextParser ==
    \/ SetContent
    \/ ParseBegin
    \/ ParseJsBlock
    \/ ParseHtmlBlock
    \/ ParseReturn
    \/ EmitJs
    \/ EmitPadded

SpecParser == Init /\ [][NextParser]_vars

----------------------------------------------------------------------------
HtmlDecode(tok) ==
    CASE tok = "&#39;" -> "'"
      [] tok = "&quot;" -> "\""
      [] tok = "&#96;" -> "BQ"
      [] OTHER -> tok

\* The blocks written back: Html contents as they are, the content of any
\* other block between the two fences
RECURSIVE WriteBack(_)
WriteBack(blocks) ==
    IF blocks = <<>> THEN <<>>
    ELSE (IF blocks[1].kind = "Html" THEN blocks[1].content
          ELSE <<"<", "?">> \o blocks[1].content \o <<"?", ">">>)
         \o WriteBack(Tail(blocks))

Decoded(s) == [j \in 1..Len(s) |-> HtmlDecode(s[j])]
Encoded(s) == [j \in 1..Len(s) |-> HtmlEncode(s[j])]

\* C13 as stated: for every input, the blocks written back in order, Html
\* contents as they are and every Script or Expression content between <? and
\* ?>, give the input again up to the three escaped characters.
C13_WriteBackGivesInput ==
    parser.pc = "returned" => Decoded(WriteBack(results)) = parser.content

\* The bytes block i consumed, and the closing fence it consumed
SpanText(i) == SubSeq(parser.content, spans[i].from + 1, spans[i].to)
Close(i) == IF spans[i].closed THEN <<"?", ">">> ELSE <<>>
Body(i) == SubSeq(SpanText(i), 3, Len(SpanText(i)) - Len(Close(i)))

\* C13: every byte of the input is consumed by exactly one block, the blocks
\* consume the input in order without a gap, and each block gives back what
\* it consumed: an Html block up to the three escaped characters; a Script
\* block as <?, its content, and ?> when the fence was closed (only the last
\* block can lack it, and then it runs to the end of the input); an
\* Expression block only up to the white space and the = sign the parser
\* drops from its content. Hence the blocks written back as the claim says
\* give the input again when every fence is closed and no block is an
\* Expression.
C13_RoundTripUpToFencesAndTrim ==
    /\ Len(spans) = Len(results)
    /\ \A i \in 1..Len(spans) :
         /\ spans[i].from = (IF i = 1 THEN 0 ELSE spans[i - 1].to)
         /\ spans[i].from < spans[i].to
         /\ spans[i].to <= Len(parser.content)
         /\ ~spans[i].closed => (i = Len(spans) /\ spans[i].to = Len(parser.content))
         /\ results[i].kind = "Html" =>
              results[i].content = Encoded(SpanText(i))
         /\ results[i].kind # "Html" =>
              SpanText(i) = <<"<", "?">> \o Body(i) \o Close(i)
         /\ results[i].kind = "Javascript" => results[i].content = Body(i)
         /\ results[i].kind = "Expression" =>
              /\ StartsWithChar(TrimStart(Body(i)), "=")
              /\ results[i].content = Trim(Tail(TrimStart(Body(i))))
    /\ parser.pc # "idle" =>
         parser.pos = (IF spans = <<>> THEN 0 ELSE spans[Len(spans)].to)
    /\ parser.pc = "returned" =>
         /\ parser.pos = Len(parser.content)
         /\ (\A i \in 1..Len(spans) : spans[i].closed /\ results[i].kind # "Expression")
               => Decoded(WriteBack(results)) = parser.content

\* A parse returned an escaped Html block and an Expression block whose
\* fence is not closed: written back, they are not the input.
C13_Witness ==
    /\ parser.pc = "returned"
    /\ \E i, k \in 1..Len(results) :
         /\ results[i].kind = "Html" /\ results[i].content = <<"&#39;">>
         /\ results[k].kind = "Expression" /\ ~spans[k].closed
    /\ Decoded(WriteBack(results)) # parser.content

----------------------------------------------------------------------------
\* C14: among the blocks of a parse that carry the same line number, a later
\* block has a strictly greater column than every earlier one.
C14_ColumnsIncreaseWithinLine ==
    \A i, j \in 1..Len(results) :
        (i < j /\ results[i].lineno = results[j].lineno) =>
            results[i].colno < results[j].colno

\* A parse returned an Expression block with white space around its = sign
\* and a block behind it on the same line.
C14_Witness ==
    /\ parser.pc = "returned"
    /\ \E i \in 1..Len(results) :
         /\ i + 1 <= Len(results)
         /\ results[i].kind = "Expression"
         /\ CharsToEq(Body(i)) + WsAfterEq(Body(i)) > 0
         /\ results[i + 1].lineno = results[i].lineno
         /\ results[i + 1].colno > results[i].colno + 2

----------------------------------------------------------------------------
\* The pool when the runtime keeps running the forwarder task and every
\* executor thread: a step that stays possible is taken.
SpecFair ==
    /\ Spec
    /\ WF_vars(FwdRecv)
    /\ WF_vars(FwdSend)
    /\ \A e \in Execs : WF_vars(ExecRecv(e)) /\ WF_vars(ExecHandle(e)) /\ WF_vars(ExecDrop(e))

\* The ids of the Ops dispatched to executor e, in the order of dispatch
RECURSIVE DispatchedTo(_, _)
DispatchedTo(d, e) ==
    IF d = <<>> THEN <<>>
    ELSE IF d[1].idx = e THEN <<d[1].id>> \o DispatchedTo(Tail(d), e)
    ELSE DispatchedTo(Tail(d), e)

IsSubSeq(s, t) ==
    \E f \in [1..Len(s) -> 1..Len(t)] :
        /\ \A k \in 1..Len(s) : t[f[k]] = s[k]
        /\ \A j, k \in 1..Len(s) : j < k => f[j] < f[k]

MailboxIds(e) == [k \in 1..Len(mailbox[e]) |-> mailbox[e][k].id]

\* A step of the forwarder's send: it fails on an executor that has exited,
\* and otherwise puts the Op at the tail of a mailbox that has room.
SendStep ==
    (fwd.pc = "send" /\ fwd'.pc # "send") =>
        \/ pc[fwd.idx] = "exited" /\ mailbox'[fwd.idx] = mailbox[fwd.idx]
        \/ /\ Len(mailbox[fwd.idx]) < MailboxCap
           /\ mailbox'[fwd.idx] = Append(mailbox[fwd.idx], fwd.op)
           /\ delivered'[fwd.idx] = Append(delivered[fwd.idx], fwd.op.id)

\* C15: a mailbox never holds more Ops than its capacity. While the mailbox of
\* a running executor is full the forwarder's send stays suspended; it
\* completes only once there is room, and then puts the Op at the tail of the
\* mailbox, which it does in the end. What an executor's mailbox was given is, in order, what was
\* dispatched to it (less the sends that failed because it had exited), and
\* what waits in the mailbox is the tail of that, in the same order: a full
\* mailbox drops and reorders nothing.
C15_MailboxBoundedAndSendWaits ==
    /\ [](\A e \in Execs :
            /\ Len(mailbox[e]) <= MailboxCap
            /\ IsSubSeq(delivered[e], DispatchedTo(dispatched, e))
            /\ Len(MailboxIds(e)) <= Len(delivered[e])
            /\ MailboxIds(e) = SubSeq(delivered[e],
                                      Len(delivered[e]) - Len(mailbox[e]) + 1,
                                      Len(delivered[e]))
            /\ (pc[e] # "exited" /\ ~(fwd.pc = "send" /\ fwd.idx = e)) =>
                  delivered[e] = DispatchedTo(dispatched, e)
            /\ (pc[e] # "exited" /\ fwd.pc = "send" /\ fwd.idx = e) =>
                  Append(delivered[e], fwd.op.id) = DispatchedTo(dispatched, e))
    /\ [][SendStep]_vars
    /\ (fwd.pc = "send") ~> (fwd.pc = "recv")

\* The forwarder holds an Op for a running executor whose mailbox is full.
C15_Witness ==
    /\ fwd.pc = "send"
    /\ pc[fwd.idx] # "exited"
    /\ Len(mailbox[fwd.idx]) = MailboxCap

----------------------------------------------------------------------------
ShutdownIds == {i \in 1..nextId : submitted[i] = "Shutdown"}

\* Executor e took Op i out of its mailbox
Dequeued(e, i) ==
    /\ \E k \in 1..Len(delivered[e]) : delivered[e][k] = i
    /\ i \notin QueueIds(mailbox[e])

\* Executor e has left its loop: it is past the break
LeftLoop(p, e) == p[e] \in {"leaving", "exited"}

\* What a step may do once a Shutdown is involved
ShutdownStep ==
    /\ \A e \in Execs :
         LeftLoop(pc, e) =>
            /\ LeftLoop(pc', e)
            /\ pc[e] = "exited" => pc'[e] = "exited"
            /\ events'[e] = events[e]
            /\ ctx'[e] = ctx[e] /\ buffer'[e] = buffer[e]
    /\ \A i \in Ids : sent[i] # <<>> => sent'[i] = sent[i]
    /\ \A e \in Execs :
         (~LeftLoop(pc, e) /\ LeftLoop(pc', e)) =>
            /\ pc[e] = "recv" /\ RecvOp(mailbox[e]).kind = "Shutdown"
            /\ \A o \in Execs \ {e} :
                 /\ pc'[o] = pc[o] /\ mailbox'[o] = mailbox[o]
                 /\ events'[o] = events[o] /\ cur'[o] = cur[o]

\* C16: an executor has left its loop exactly when it has taken a Shutdown out
\* of its mailbox, and it began no Op that was delivered behind that
\* Shutdown; once it has left, it never begins or ends another Op, and the
\* replies already sent stay as they are. The step in which an executor
\* leaves takes a Shutdown from the head of its own mailbox and changes
\* nothing of any other executor, and every other executor goes on: again
\* and again, each executor that has not left has finished what it was
\* handling and served all its mailbox held.
C16_ShutdownStopsOneExecutor ==
    /\ [](\A e \in Execs :
            /\ LeftLoop(pc, e) <=> \E i \in ShutdownIds : Dequeued(e, i)
            /\ \A i \in ShutdownIds :
                 Dequeued(e, i) => \A j \in Ids : (Begun(j) /\ j > i) =>
                    \A k \in 1..Len(events[e]) : events[e][k][2] # j)
    /\ [][ShutdownStep]_vars
    /\ []<>(\A e \in Execs : pc[e] = "exited" \/ (pc[e] = "recv" /\ mailbox[e] = <<>>))

\* One executor has left its loop after it answered a render, an Op delivered
\* behind its Shutdown was dropped, and another executor is handling an Op.
C16_Witness ==
    \E e, o \in Execs :
        /\ pc[e] = "exited" /\ pc[o] = "busy"
        /\ \E i \in Ids : sent[i] # <<>> /\ <<"end", i>> \in {events[e][k] : k \in 1..Len(events[e])}
        /\ \E i \in ShutdownIds : \E j \in Ids :
             /\ Dequeued(e, i) /\ j > i /\ closed[j]
             /\ \E k \in 1..Len(delivered[e]) : delivered[e][k] = j

----------------------------------------------------------------------------
(***************************************************************************)
(* ExecutorPool::join (crates/engine/src/engine.rs).  A JoinHandle is the  *)
(* number of its executor; h.join() returns once that executor's thread    *)
(* has ended, which it does when Executor::run returns.                    *)
(***************************************************************************)
\* A join that keeps the guard until it returns
GuardKept(j) == j

\* The guard is dropped at the end of the block that takes the handles.
GuardDropped(j) == 0

\* A handle whose join returns whatever its thread does
ThreadDetached(p, h) == TRUE

\* h.join() can return: the thread of handle h has ended
ThreadEnded(p, h) == p[h] = "exited"

\* let mut guard = self.threads.lock().unwrap()
JoinLock(j) ==
    /\ jn[j].pc = "idle"
    /\ Len(joins) < MaxJoins
    /\ threads_lock = 0
    /\ threads_lock' = j
    /\ jn' = [jn EXCEPT ![j] = [pc |-> "locked", handles |-> <<>>, call |-> Len(joins) + 1]]
    /\ joins' = Append(joins, [by |-> j, took |-> <<>>, joined |-> <<>>])
    /\ UNCHANGED threads
    /\ UNCHANGED exceptJoin

\* std::mem::take(&mut *guard), and the end of the block
JoinTake(j) ==
    /\ jn[j].pc = "locked"
    /\ jn' = [jn EXCEPT ![j].pc = "joining", ![j].handles = threads]
    /\ threads' = <<>>
    /\ threads_lock' = GuardDropped(j)
    /\ joins' = [joins EXCEPT ![jn[j].call].took = threads]
    /\ UNCHANGED exceptJoin

\* h.join() of the next handle: returns when the thread has ended
JoinWait(j) ==
    /\ jn[j].pc = "joining"
    /\ jn[j].handles # <<>>
    /\ ThreadEnded(pc, Head(jn[j].handles))
    /\ jn' = [jn EXCEPT ![j].handles = Tail(@)]
    /\ joins' = [joins EXCEPT ![jn[j].call].joined = Append(@, Head(jn[j].handles))]
    /\ UNCHANGED <<threads, threads_lock>>
    /\ UNCHANGED exceptJoin

\* the end of the for loop
JoinReturn(j) ==
    /\ jn[j].pc = "joining"
    /\ jn[j].handles = <<>>
    /\ jn' = [jn EXCEPT ![j] = IdleJoin]
    /\ UNCHANGED <<threads, threads_lock, joins>>
    /\ UNCHANGED exceptJoin

\* The pool is sent Shutdowns while its owner joins.
NextJoin ==
    \/ SubmitShutdown
    \/ FwdRecv
    \/ FwdSend
    \/ \E e \in Execs : ExecRecv(e)
    \/ \E e \in Execs : ExecDrop(e)
    \/ \E j \in Joiners : JoinLock(j)
    \/ \E j \in Joiners : JoinTake(j)
    \/ \E j \in Joiners : JoinWait(j)
    \/ \E j \in Joiners : JoinReturn(j)

SpecJoin == Init /\ [][NextJoin]_vars

\* The handles of s, as a set
Range(s) == {s[k] : k \in 1..Len(s)}

\* Where handle h is or was: in the list, in the hands of a caller, joined
Places(h) ==
    Cardinality({k \in 1..Len(threads) : threads[k] = h})
    + Cardinality({<<j, k>> \in Joiners \X (1..NumExecutors) :
                      k <= Len(jn[j].handles) /\ jn[j].handles[k] = h})
    + Cardinality({<<c, k>> \in (1..Len(joins)) \X (1..NumExecutors) :
                      k <= Len(joins[c].joined) /\ joins[c].joined[k] = h})

\* C17: over any calls of join, one after another or at once, every handle
\* is at any time in exactly one place (the list, the hands of one caller, or
\* joined, and then joined once and only after its thread has ended); no
\* caller holds the lock of the list while it waits on a thread; and a call
\* that found the list empty joins nothing and can return at once.
C17_JoinTakesEachHandleOnce ==
    /\ \A h \in Execs : Places(h) = 1
    /\ \A c \in 1..Len(joins) : \A h \in Range(joins[c].joined) :
         pc[h] = "exited" /\ h \in Range(joins[c].took)
    /\ \A j \in Joiners :
         /\ jn[j].pc = "joining" => threads_lock # j
         /\ jn[j].pc = "locked" <=> threads_lock = j
         /\ (jn[j].pc = "joining" /\ joins[jn[j].call].took = <<>>) =>
               (jn[j].handles = <<>> /\ ENABLED JoinReturn(j))

\* Two calls at once: one took every handle and has joined the first while the
\* other thread still runs, and a second call, which found the list empty,
\* has returned meanwhile.
C17_Witness ==
    /\ Len(joins) >= 2
    /\ Len(joins[1].took) = NumExecutors
    /\ Len(joins[1].joined) = 1
    /\ jn[joins[1].by].pc = "joining"
    /\ \E h \in Execs : pc[h] # "exited"
    /\ joins[2].took = <<>> /\ jn[joins[2].by].pc = "idle"

----------------------------------------------------------------------------
\* The executor Op i was dispatched to
TargetOf(i) == dispatched[CHOOSE k \in 1..Len(dispatched) : dispatched[k].id = i].idx

\* The send of Op i failed: it was dispatched and never reached a mailbox
SendFailed(i) ==
    /\ \E k \in 1..Len(dispatched) : dispatched[k].id = i
    /\ ~(fwd.pc = "send" /\ fwd.op.id = i)
    /\ i \notin Range(delivered[TargetOf(i)])

\* C18: the forwarder outlives the executors. A send to an executor that has
\* exited fails at once and never blocks; the forwarder takes every Op out of
\* the intake channel in the end; a render goes without an answer only when
\* the executor it was dispatched to has exited; and again and again every
\* render submitted so far has been answered with one body, unless it was
\* lost to such an executor.
C18_ForwarderOutlivesExecutors ==
    /\ [](/\ fwd.pc \in {"recv", "send"}
          /\ (fwd.pc = "send" /\ pc[fwd.idx] = "exited") => ENABLED FwdSend
          /\ \A i \in SubmittedRenders :
               /\ closed[i] =>
                    (\E k \in 1..Len(dispatched) : dispatched[k].id = i)
                    /\ pc[TargetOf(i)] = "exited"
               /\ SendFailed(i) => closed[i])
    /\ (intake # <<>>) ~> (fwd.pc = "send")
    /\ []<>(\A i \in SubmittedRenders : Len(sent[i]) = 1 \/ closed[i])

\* A send to an exited executor failed, and a render submitted after it,
\* dispatched to a running executor, was answered with a body.
C18_Witness ==
    \E i, j \in SubmittedRenders :
        /\ i < j
        /\ SendFailed(i) /\ closed[i]
        /\ Len(sent[j]) = 1 /\ Len(sent[j][1]) > 0
        /\ pc[TargetOf(j)] # "exited"

----------------------------------------------------------------------------
(***************************************************************************)
(* Modules in a render (crates/engine/src/bindings.rs, extensions.rs,      *)
(* engine.rs).  Thread t is an executor thread; its render makes a         *)
(* context, runs every installer of the pool on it, and then runs the      *)
(* blocks, which may call include(key).  Of a global, the model keeps the  *)
(* names of the module objects, the other names the installers set, and    *)
(* the value of a global n.  The module with key m ships a bootstrap       *)
(* script that adds 1 to the global n; the other ships none.               *)
(***************************************************************************)
BootScript == "globalThis.n = (globalThis.n || 0) + 1;"
js_files(k) == IF k = <<"m">> THEN <<BootScript>> ELSE <<>>

\* A script of the extension directory that takes the object of module m
\* off the global
UnsetScript == "delete globalThis.M;"

\* The installer closure of load_module_installer, run on a global g: the
\* module object is taken from the global or made, the functions are set on
\* it, it is set on the global, and every bootstrap script is run.
Installer(inst, g) ==
    [g EXCEPT !.objs = @ \cup {object_name_for(inst.key)},
              !.n = @ + Len(js_files(inst.key))]

\* What the installer does when only its assignments count: the module
\* object is set again
Reassigned(inst, g) == [g EXCEPT !.objs = @ \cup {object_name_for(inst.key)}]

\* Default installers that leave the loaded modules out
InstallNone(m, g) == g

\* ModuleRegistry::install_all: every installer of the map, each once (they
\* touch different objects, and each adds to n, so their order is immaterial)
install_all(m, g) ==
    [g EXCEPT !.objs = @ \cup {object_name_for(m[k].key) : k \in DOMAIN m},
              !.n = @ + Cardinality({k \in DOMAIN m : js_files(m[k].key) # <<>>})]

\* ModuleRegistry::install_one
install_one(m, k, g) == IF k \in DOMAIN m THEN Installer(m[k], g) ELSE g

\* bindings::default_installers: GlobalBinding, the closure that calls
\* modules.install_all, IncludeBinding
default_installers ==
    <<[kind |-> "global", name |-> <<>>, code |-> ""],
      [kind |-> "modules", name |-> <<>>, code |-> ""],
      [kind |-> "include", name |-> <<>>, code |-> ""]>>

\* extensions::load_installers: one installer for every function of every
\* library found under the extension directory when the pool is made; it
\* sets the function on the global under the function's name
load_installers(dir) ==
    [i \in 1..Len(dir.natives) |-> [kind |-> "native", name |-> dir.natives[i], code |-> ""]]

\* extensions::load_js_installers: one installer for every .js file found
\* under the extension directory when the pool is made, in the order of the
\* paths; it runs the text the file held then
load_js_installers(dir) ==
    [i \in 1..Len(dir.scripts) |-> [kind |-> "js", name |-> <<>>, code |-> dir.scripts[i]]]

\* What the extension directory holds when the pool is made: nothing; a
\* library with a function f and the directory of module m with its
\* bootstrap script (the library of m itself comes later); a script that
\* takes M off the global; a library one of whose functions has the name of
\* the object of module m.
StartDirs ==
    {[natives |-> <<>>, scripts |-> <<>>],
     [natives |-> <<(<<"f">>)>>, scripts |-> <<BootScript>>],
     [natives |-> <<>>, scripts |-> <<BootScript, UnsetScript>>],
     [natives |-> <<object_name_for(<<"m">>)>>, scripts |-> <<>>]}

\* compile_and_run_current of a script of the extension directory, the
\* result dropped
RunExtension(code, g) ==
    CASE code = BootScript -> [g EXCEPT !.n = @ + 1]
      [] code = UnsetScript ->
            [g EXCEPT !.objs = @ \ {object_name_for(<<"m">>)},
                      !.fns = @ \ {object_name_for(<<"m">>)}]
      [] OTHER -> g

\* install(&mut context_scope) for one installer of the pool's list; m is
\* the installers map of the registry
RunInstaller(inst, m, g) ==
    CASE inst.kind = "global" -> [g EXCEPT !.fns = @ \cup {<<"g", "l", "o", "b", "a", "l">>}]
      [] inst.kind = "modules" -> install_all(m, g)
      [] inst.kind = "include" ->
            [g EXCEPT !.fns = @ \cup {<<"i", "n", "c", "l", "u", "d", "e">>}]
      [] inst.kind = "native" ->
            [g EXCEPT !.objs = @ \ {inst.name}, !.fns = @ \cup {inst.name}]
      [] inst.kind = "js" -> RunExtension(inst.code, g)

\* for install in self.installers.iter() { install(&mut context_scope); }
RECURSIVE RunInstallers(_, _, _)
RunInstallers(list, m, g) ==
    IF list = <<>> THEN g
    ELSE RunInstallers(Tail(list), m, RunInstaller(Head(list), m, g))

ReturnsTo(t) == SelectSeq(returns, LAMBDA r : r.t = t)

\* ExecutorPool::new: the installer list of the executors, made of what the
\* extension directory holds at that time
PoolNew ==
    /\ all_installers = <<>>
    /\ \E dir \in StartDirs :
          all_installers' = default_installers \o load_installers(dir)
                               \o load_js_installers(dir)
    /\ UNCHANGED <<rs, glob, files>>
    /\ UNCHANGED exceptModule

\* The executor takes an Op::Render: v8::Context::new
RenderStart(t) ==
    /\ all_installers # <<>>
    /\ rs[t].pc = "idle"
    /\ rs' = [rs EXCEPT ![t] = [IdleRender EXCEPT !.pc = "install",
                                                  !.seen = Len(ReturnsTo(t)),
                                                  !.atStart = loaded]]
    /\ glob' = [glob EXCEPT ![t] = EmptyGlobal]
    /\ UNCHANGED <<files, all_installers>>
    /\ UNCHANGED exceptModule

\* for install in self.installers.iter(): every installer of the pool's
\* list, the defaults and those of the extension directory, in the order of
\* the list
InstallDefaults(t) ==
    /\ rs[t].pc = "install"
    /\ glob' = [glob EXCEPT ![t] = RunInstallers(all_installers, installers, @)]
    /\ rs' = [rs EXCEPT ![t].pc = "running",
                        ![t].ran = DOMAIN installers,
                        ![t].once = RunInstallers(all_installers, installers, glob[t])]
    /\ UNCHANGED <<files, all_installers>>
    /\ UNCHANGED exceptModule

\* The module names the documents pass to include
IncludedKeys == {<<"m">>}

\* A block calls include(key): st.modules.ensure_loaded(&path)
Include(t, k) ==
    /\ LoadsStarted < MaxIncludes
    /\ rs[t].pc = "running"
    /\ rs[t].seen = Len(ReturnsTo(t))
    /\ ReadCheck(t, k)

\* The places include reads for a path without extension, in the order of
\* the code: the path as given, the path under the document root, then the
\* three candidates.
Locations ==
    <<"<path>", "<document_root>/<path>", "<document_root>/<path>.js",
      "<extensions_dir>/<path>/<path>.js", "<extensions_dir>/<path>.js">>

\* What include holds once ensure_loaded has returned ret and the match on
\* it is over: the value is what the global holds under the module's object
\* name when the registry knows one; else the callback goes on to read the
\* files.
Included(key, ret, named) ==
    [key |-> key, ret |-> ret, outcome |-> IF named THEN "module" ELSE "reading",
     ran |-> "none", tried |-> <<>>, moved |-> FALSE]

\* One fs::read_to_string of the callback, of the place behind those
\* already tried, while content.is_none(): the file is there and is run; or
\* it is not, and behind the last place include throws
\* "include('..') read error: not found as module or file".
ReadNext(inc, present) ==
    IF Locations[Len(inc.tried) + 1] \in present
    THEN [inc EXCEPT !.tried = Append(@, Locations[Len(inc.tried) + 1]),
                     !.ran = Locations[Len(inc.tried) + 1],
                     !.outcome = "file"]
    ELSE [inc EXCEPT !.tried = Append(@, Locations[Len(inc.tried) + 1]),
                     !.outcome = IF Len(inc.tried) + 1 = Len(Locations)
                                 THEN "throw" ELSE "reading"]

\* the match on what ensure_loaded returned: install_one for Ok, nothing for
\* Err; then the look at object_name.
IncludeDone(t, call) ==
    /\ glob' = [glob EXCEPT ![t] =
                  IF call.ret \in {"Some", "None"}
                  THEN install_one(installers, call.key, @) ELSE @]
    /\ rs' = [rs EXCEPT ![t].seen = @ + 1, ![t].includes = @ + 1,
                        ![t].inc = Included(call.key, call.ret,
                                            call.key \in DOMAIN obj_names),
                        ![t].pc = IF call.key \in DOMAIN obj_names
                                  THEN "running" ELSE "reading",
                        ![t].ran = IF call.ret \in {"Some", "None"}
                                   THEN @ \cup ({call.key} \cap DOMAIN installers)
                                   ELSE @,
                        ![t].once =
                            IF call.ret \in {"Some", "None"} /\ call.key \in DOMAIN installers
                            THEN IF call.key \in rs[t].ran
                                 THEN Reassigned(installers[call.key], @)
                                 ELSE Installer(installers[call.key], @)
                            ELSE @]

IncludeInstall(t) ==
    /\ rs[t].pc = "running"
    /\ rs[t].seen < Len(ReturnsTo(t))
    /\ IncludeDone(t, ReturnsTo(t)[rs[t].seen + 1])
    /\ UNCHANGED <<files, all_installers>>
    /\ UNCHANGED exceptModule

\* The next read of the callback.  The exception include throws behind the
\* last read goes to the script: a script that catches it goes on, one that
\* does not is over.
IncludeRead(t) ==
    /\ rs[t].pc = "reading"
    /\ \E caught \in BOOLEAN :
          rs' = [rs EXCEPT ![t].inc = ReadNext(@, files[rs[t].inc.key]),
                           ![t].pc =
                               CASE ReadNext(rs[t].inc, files[rs[t].inc.key]).outcome
                                       = "reading" -> "reading"
                                 [] ReadNext(rs[t].inc, files[rs[t].inc.key]).outcome
                                       = "file" -> "running"
                                 [] OTHER -> IF caught THEN "running" ELSE "failed"]
    /\ UNCHANGED <<glob, files, all_installers>>
    /\ UNCHANGED exceptModule

\* A library for key k is put into the extension directory under the name
\* of the key (just before a load of the key looks at it).
LibraryAdded(k) ==
    /\ lib[k] = "absent"
    /\ \E t \in Threads : th[t].pc = "load" /\ th[t].key = k
    /\ lib' = [lib EXCEPT ![k] = "good"]
    /\ UNCHANGED <<loaded, installers, obj_names, loaded_w, th, returns, opens, reopened, held>>
    /\ UNCHANGED <<poolVars, bridgeVars, laterVars>>

\* respond_to.send: the render is over, and its context with it
RenderEnd(t) ==
    /\ rs[t].pc \in {"running", "failed"}
    /\ th[t].pc = "idle"
    /\ rs[t].seen = Len(ReturnsTo(t))
    /\ rs' = [rs EXCEPT ![t] = IdleRender]
    /\ glob' = [glob EXCEPT ![t] = EmptyGlobal]
    /\ UNCHANGED <<files, all_installers>>
    /\ UNCHANGED exceptModule

NextModules ==
    \/ PoolNew
    \/ \E t \in Threads : RenderStart(t)
    \/ \E t \in Threads : RenderEnd(t)
    \/ \E t \in Threads : InstallDefaults(t)
    \/ \E t \in Threads, k \in IncludedKeys : Include(t, k)
    \/ \E t \in Threads : IncludeInstall(t)
    \/ \E t \in Threads : IncludeRead(t)
    \/ \E t \in Threads : WriteCheck(t)
    \/ \E t \in Threads : Load(t)
    \/ \E t \in Threads : InsertObjName(t)
    \/ \E t \in Threads : InsertInst(t)
    \/ \E t \in Threads : InsertLoaded(t)
    \/ \E k \in IncludedKeys : LibraryAdded(k)

SpecModules == Init /\ [][NextModules]_vars

\* The installers the pool runs behind the one that calls install_all
AfterInstallAll(list) ==
    IF \E i \in 1..Len(list) : list[i].kind = "modules"
    THEN SubSeq(list, 1 + CHOOSE i \in 1..Len(list) : list[i].kind = "modules", Len(list))
    ELSE <<>>

\* One of those installers sets the name again or takes it off the global:
\* a function of a library that has that name, or a script that deletes it
Displaced(name) ==
    \E i \in 1..Len(AfterInstallAll(all_installers)) :
        \/ /\ AfterInstallAll(all_installers)[i].kind = "native"
           /\ AfterInstallAll(all_installers)[i].name = name
        \/ /\ AfterInstallAll(all_installers)[i].kind = "js"
           /\ AfterInstallAll(all_installers)[i].code = UnsetScript

\* C20 as stated: running a module's installer a second time on a context
\* leaves the global that running it once leaves.  The global of a render is
\* then, at any time, the one the same steps would have made had every run
\* of an installer on a context it had run on before done no more than set
\* the module object again.
C20_InstallerIdempotent ==
    \A t \in Threads : rs[t].pc = "running" => glob[t] = rs[t].once

----------------------------------------------------------------------------
(***************************************************************************)
(* The reply channel between an HTTP handler and the executor of its       *)
(* Render: the handler awaits the receiver (crates/engine/src/http.rs,     *)
(* handle_request; crates/engine/src/engine.rs, the route of Engine::run); *)
(* the server drops the handler, and the receiver with it, when the client *)
(* goes away.                                                              *)
(***************************************************************************)
Handlers == {"handle_request", "route"}

\* match rx.await of HttpServer::handle_request
handle_request_reply(ok, body) ==
    IF ok THEN [by |-> "handle_request", status |-> 200, body |-> body]
    ELSE [by |-> "handle_request", status |-> 503, body |-> <<"Executor unavailable">>]

\* match rx.await of the route of Engine::run: Html(..) answers 200
route_reply(ok, body) ==
    IF ok THEN [by |-> "route", status |-> 200, body |-> body]
    ELSE [by |-> "route", status |-> 200, body |-> <<"Executor unavailable">>]

Reply(h, ok, body) ==
    IF h = "route" THEN route_reply(ok, body) ELSE handle_request_reply(ok, body)

\* The handler of request i awaits its receiver
Awaited(i) ==
    /\ i <= nextId
    /\ submitted[i] = "Render"
    /\ ~rx_dropped[i]
    /\ response[i] = NoResponse

\* The client of request i goes away: the handler is dropped at rx.await.
ClientGone(i) ==
    /\ Awaited(i)
    /\ rx_dropped' = [rx_dropped EXCEPT ![i] = TRUE]
    /\ UNCHANGED <<send_errs, response, live>>
    /\ UNCHANGED <<poolVars, exceptReply>>

\* rx.await yields Ok(body) once a body was sent, Err(_) once respond_to was
\* dropped without one.
HttpReply(i) ==
    /\ Awaited(i)
    /\ sent[i] # <<>> \/ closed[i]
    /\ \E h \in Handlers :
         response' = [response EXCEPT ![i] =
            Reply(h, sent[i] # <<>>, IF sent[i] # <<>> THEN sent[i][1] ELSE <<>>)]
    /\ UNCHANGED <<rx_dropped, send_errs, live>>
    /\ UNCHANGED <<poolVars, exceptReply>>

NextClient ==
    \/ nextId < MaxRequests /\ SubmitRender
    \/ nextId < MaxRequests /\ SubmitShutdown
    \/ FwdRecv
    \/ FwdSend
    \/ \E e \in Execs : ExecRecv(e)
    \/ \E e \in Execs : ExecDrop(e)
    \/ \E e \in Execs : ExecHandle(e)
    \/ \E i \in Ids : ClientGone(i)
    \/ \E i \in Ids : HttpReply(i)

SpecClient == Init /\ [][NextClient]_vars

\* What the step that ends a Render may do when the receiver is gone
LostReplyStep ==
    \A e \in Execs :
        (pc[e] = "busy" /\ events'[e] # events[e] /\ ~SendOk(cur[e])) =>
            /\ pc'[e] = "recv"
            /\ mailbox' = mailbox
            /\ response' = response
            /\ send_errs' = send_errs \cup {cur[e].id}
            /\ \A o \in Execs \ {e} : pc'[o] = pc[o]

\* C22: when the receiver of a Render's reply channel was dropped before the
\* executor sends, the send changes nothing but the record of its failure:
\* the executor awaits its next Op with its mailbox as it was, no response is
\* made, an executor only ever leaves its loop for a Shutdown, and every
\* Render an executor handles afterwards is answered once as usual.
C22_SendToGoneClientIsNoOp ==
    /\ [][LostReplyStep]_vars
    /\ [](\A e \in Execs :
            pc[e] = "exited" => \E i \in ShutdownIds : Dequeued(e, i))
    /\ [](\A i \in send_errs : rx_dropped[i] /\ response[i] = NoResponse)
    /\ [](\A i \in Ids : (Handled(i) /\ submitted[i] = "Render") => Len(sent[i]) = 1)

\* An executor sent the body of a Render whose client had gone, and then
\* handled another Render, whose body the handler answered with 200.
C22_Witness ==
    \E e \in Execs : \E a, b \in 1..Len(events[e]) :
        /\ a < b
        /\ events[e][a][1] = "end" /\ events[e][a][2] \in send_errs
        /\ events[e][b][1] = "end" /\ events[e][b][2] \notin send_errs
        /\ response[events[e][b][2]].status = 200
        /\ response[events[e][b][2]].body = sent[events[e][b][2]][1]

\* C24 as stated: when the reply channel of a submitted Render is closed
\* without a body (its Op was dropped, or its executor left before it
\* replied), the HTTP handler that awaits it is able to answer at once, and
\* what it answers is 503 with the text Executor unavailable, never a 200.
C24_ClosedReplyAnswered503 ==
    \A i \in SubmittedRenders :
        /\ (closed[i] /\ Awaited(i)) => ENABLED HttpReply(i)
        /\ (closed[i] /\ response[i] # NoResponse) =>
              /\ response[i].status = 503
              /\ response[i].body = <<"Executor unavailable">>

----------------------------------------------------------------------------
(***************************************************************************)
(* HttpServer::handle_request (crates/engine/src/http.rs), one call at a   *)
(* time, a step for each await.  A path is a sequence of characters.  What *)
(* the document root holds is the environment's: root_file_exists and the  *)
(* reads yield any outcome, and so does the reply of the engine.           *)
(***************************************************************************)
\* Parser::parse, all of its loop
RECURSIVE ParseLoop(_, _, _, _, _)
ParseLoop(c, pos, line, nesting, acc) ==
    IF pos >= Len(c) THEN acc
    ELSE LET r == IF lookahead(c, pos, <<"<", "?">>)
                  THEN parse_js_block(c, pos, line, nesting)
                  ELSE parse_html_block(c, pos, line, nesting)
         IN ParseLoop(c, r.pos, r.line, r.nesting, Append(acc, r.block))

parse(c) == ParseLoop(c, 0, 1, 0, <<>>)

\* config.index_file
index_name == <<"i", "n", "d", "e", "x", ".", "j", "h", "p">>

PathPieces == {<<"/">>, <<".">>, <<".", ".">>, <<"a">>, <<".", "j", "h", "p">>, index_name}
Paths == {ConcatAll(q) : q \in SeqsUpTo(PathPieces, MaxPath)}

\* What a file of the document root may hold
FileContents == {<<>>, <<"a">>, <<"<", "?", "=", "a", " ", "?", ">", "'">>}
\* What the engine may reply
Bodies == {<<>>, <<"a">>}

RECURSIVE trim_start_matches(_, _)
trim_start_matches(s, ch) ==
    IF s # <<>> /\ s[1] = ch THEN trim_start_matches(Tail(s), ch) ELSE s

RECURSIVE trim_end_matches(_, _)
trim_end_matches(s, ch) ==
    IF s # <<>> /\ s[Len(s)] = ch
    THEN trim_end_matches(SubSeq(s, 1, Len(s) - 1), ch) ELSE s

trim_matches(s, ch) == trim_end_matches(trim_start_matches(s, ch), ch)

contains(s, pat) == \E k \in 0..Len(s) : lookahead(s, k, pat)

ends_with(s, pat) == Len(pat) <= Len(s) /\ lookahead(s, Len(s) - Len(pat), pat)

\* path.trim_matches('/').is_empty()
IsRoot(path) == trim_matches(path, "/") = <<>>
\* let rel = path.trim_start_matches('/')
Rel(path) == trim_start_matches(path, "/")

Respond(status, body) == [by |-> "handle_request", status |-> status, body |-> body]
RootNotFound == Respond(404, <<"Cannot get '/': File Not Found">>)
NotFound(rel) == Respond(404, <<"Cannot get '/">> \o rel \o <<"': File Not Found">>)
InvalidPath == Respond(403, <<"Invalid path">>)
FailedToRead == Respond(500, <<"Failed to read file">>)

\* A handler that looks the file up before it looks at the path
ExistsFirst(path) ==
    IF IsRoot(path) THEN "root_exists"
    ELSE IF Rel(path) = index_name THEN "read_index"
    ELSE "exists"

\* Where handle_request first awaits, or "done" when it returns before
FirstAwait(path) ==
    IF IsRoot(path) THEN "root_exists"
    ELSE IF contains(Rel(path), <<".", ".">>) THEN "done"
    ELSE IF Rel(path) = index_name THEN "read_index"
    ELSE "exists"

handle_request(path) ==
    /\ hr' = [pc |-> FirstAwait(path), path |-> path, op |-> 0,
              resp |-> IF FirstAwait(path) = "done" THEN InvalidPath ELSE NoResponse]
    /\ fs_log' = <<>>
    /\ nreq' = nreq + 1
    /\ UNCHANGED <<poolVars, exceptHttp>>

HttpStart ==
    /\ hr.pc = "idle"
    /\ nreq < MaxRequests
    /\ \E path \in Paths : handle_request(path)

\* doc_root.root_file_exists(..).await
HttpExists ==
    /\ hr.pc \in {"root_exists", "exists"}
    /\ LET root == hr.pc = "root_exists"
           name == IF root THEN index_name ELSE Rel(hr.path) IN
       /\ fs_log' = Append(fs_log, <<"exists", name>>)
       /\ \E found \in BOOLEAN :
            hr' = IF ~found
                  THEN [hr EXCEPT !.pc = "done",
                           !.resp = IF root THEN RootNotFound ELSE NotFound(name)]
                  ELSE [hr EXCEPT !.pc = IF root THEN "read_index"
                                        ELSE IF ends_with(name, <<".", "j", "h", "p">>)
                                        THEN "read_jhp" ELSE "read_static"]
    /\ UNCHANGED nreq
    /\ UNCHANGED <<poolVars, exceptHttp>>

\* The read failed, or the file is served as it is
ReadEnds(name, resp) ==
    /\ fs_log' = Append(fs_log, <<"read", name>>)
    /\ hr' = [hr EXCEPT !.pc = "done", !.resp = resp]
    /\ UNCHANGED poolVars

\* Parser::parse, then sender.send(Op::Render { .. })
ReadSends(name, content) ==
    /\ nextId < MaxItems
    /\ fs_log' = Append(Append(fs_log, <<"read", name>>), <<"send", nextId + 1>>)
    /\ hr' = [hr EXCEPT !.pc = "await", !.op = nextId + 1]
    /\ nextId' = nextId + 1
    /\ submitted' = Append(submitted, "Render")
    /\ intake' = Append(intake, RenderOp(nextId + 1, parse(content), name))
    /\ UNCHANGED <<fwd, next_idx, mailbox, pc, cur, ctx, buffer, sent, closed,
                   dispatched, delivered, events, prevCtx, last, obuf, oin, ores>>

\* doc_root.read_index().await or doc_root.read_file(rel).await, and what
\* follows it up to the next await
HttpRead ==
    /\ hr.pc \in {"read_index", "read_jhp", "read_static"}
    /\ LET name == IF IsRoot(hr.path) THEN index_name ELSE Rel(hr.path) IN
       \/ ReadEnds(name, IF hr.pc = "read_index" THEN RootNotFound ELSE FailedToRead)
       \/ \E content \in FileContents :
            IF hr.pc = "read_static"
            THEN ReadEnds(name, Respond(200, content))
            ELSE ReadSends(name, content)
    /\ UNCHANGED nreq
    /\ UNCHANGED exceptHttp

\* match rx.await
HttpAwait ==
    /\ hr.pc = "await"
    /\ \/ \E body \in Bodies :
            hr' = [hr EXCEPT !.pc = "done", !.resp = handle_request_reply(TRUE, body)]
       \/ hr' = [hr EXCEPT !.pc = "done", !.resp = handle_request_reply(FALSE, <<>>)]
    \* rx resolves once respond_to was used or dropped: the Op that holds it
    \* has left the intake channel by then.
    /\ intake' = SelectSeq(intake, LAMBDA o : o.id # hr.op)
    /\ UNCHANGED <<fs_log, nreq>>
    /\ UNCHANGED <<nextId, submitted, fwd, next_idx, mailbox, pc, cur, ctx, buffer, sent,
                   closed, dispatched, delivered, events, prevCtx, last, obuf, oin, ores>>
    /\ UNCHANGED exceptHttp

\* The response is handed to the server, and the call is over.
HttpReturn ==
    /\ hr.pc = "done"
    /\ hr' = IdleRequest
    /\ fs_log' = <<>>
    /\ UNCHANGED nreq
    /\ UNCHANGED <<poolVars, exceptHttp>>

NextHttp ==
    \/ HttpStart
    \/ HttpReturn
    \/ HttpExists
    \/ HttpRead
    \/ HttpAwait

SpecHttp == Init /\ [][NextHttp]_vars

\* C23: for every GET whose path is not the root and contains two dots in a
\* row, handle_request answers 403 Invalid path, and in that call it asks
\* for no file's existence, reads no file and sends no Op to the engine.
C23_DotDotRejectedBeforeAnyFileAccess ==
    (hr.pc # "idle" /\ ~IsRoot(hr.path) /\ contains(Rel(hr.path), <<".", ".">>)) =>
        /\ hr.pc = "done"
        /\ hr.resp = InvalidPath
        /\ fs_log = <<>>
        /\ hr.op = 0

\* A call with a path that has the two dots behind a name was answered, after
\* an earlier call had sent a Render to the engine.
C23_Witness ==
    /\ hr.pc = "done"
    /\ hr.resp.status = 403
    /\ hr.path # <<>> /\ hr.path[1] = "a"
    /\ nextId > 0

----------------------------------------------------------------------------
(***************************************************************************)
(* include(name) for a name without extension, followed through one       *)
(* executor thread (crates/engine/src/bindings.rs, the include callback):  *)
(* the extension directory and the files around the document change under *)
(* the running server.                                                     *)
(***************************************************************************)
\* Files for include(k) are put where include looks; moved is history, it
\* marks the last call of include(k) as one since whose start a file was put.
FilesPlaced(k) ==
    /\ files[k] = {}
    /\ rs[1].pc = "running" /\ th[1].pc = "idle"
    /\ \E S \in (SUBSET Range(Locations)) \ {{}} : files' = [files EXCEPT ![k] = S]
    /\ rs' = [rs EXCEPT ![1].inc.moved = @ \/ rs[1].inc.key = k]
    /\ UNCHANGED <<glob, all_installers>>
    /\ UNCHANGED exceptModule

\* A file is put at one of those places between two reads of a call of
\* include(k).
FilePlacedMeanwhile(k) ==
    /\ rs[1].pc = "reading" /\ rs[1].inc.key = k
    /\ \E loc \in Range(Locations) \ files[k] : files' = [files EXCEPT ![k] = @ \cup {loc}]
    /\ rs' = [rs EXCEPT ![1].inc.moved = TRUE]
    /\ UNCHANGED <<glob, all_installers>>
    /\ UNCHANGED exceptModule

NextInclude ==
    \/ PoolNew
    \/ RenderStart(1)
    \/ InstallDefaults(1)
    \/ \E k \in IncludedKeys : Include(1, k)
    \/ WriteCheck(1)
    \/ Load(1)
    \/ InsertObjName(1)
    \/ InsertInst(1)
    \/ InsertLoaded(1)
    \/ IncludeInstall(1)
    \/ IncludeRead(1)
    \/ RenderEnd(1)
    \/ \E k \in IncludedKeys : DiskChange(k)
    \/ \E k \in IncludedKeys : FilesPlaced(k)
    \/ \E k \in IncludedKeys : FilePlacedMeanwhile(k)

SpecInclude == Init /\ [][NextInclude]_vars

\* What ensure_loaded returns for a library that is there and does not load
LoadFailures ==
    {"Missing jhp_register_v1", "Unsupported extension ABI or empty function table"}

\* C25 as stated: when include(name) is called with a name without extension
\* whose native library exists and fails to load (no registration symbol, an
\* ABI version other than 1, or an empty function table), include throws an
\* error to the script, and the render is terminated unless the script
\* catches it.
C25_LoadFailureThrownFromInclude ==
    (rs[1].inc.ret \in LoadFailures /\ rs[1].pc # "reading") =>
        rs[1].inc.outcome = "throw"

\* The three places the specification names for a module shim
Shims ==
    <<"<document_root>/<path>.js", "<extensions_dir>/<path>/<path>.js",
      "<extensions_dir>/<path>.js">>

FirstShim(present) ==
    IF Shims[1] \in present THEN 1
    ELSE IF Shims[2] \in present THEN 2
    ELSE IF Shims[3] \in present THEN 3 ELSE 0

\* C26 as stated: for include(name) with a name without extension for which
\* no native module exists, the file run is the first that exists of the
\* three shims, tried in that order and nothing tried before them, and
\* include throws when none of the three exists.  The calls looked at are
\* those that are over and since whose start no file was put anywhere.
C26_ShimsTriedInOrder ==
    \A k \in IncludedKeys :
        (rs[1].inc.ret = "No native library found for module"
           /\ rs[1].inc.key = k /\ rs[1].pc # "reading" /\ ~rs[1].inc.moved) =>
            /\ rs[1].inc.tried = SubSeq(Shims, 1, IF FirstShim(files[k]) = 0 THEN 3
                                                  ELSE FirstShim(files[k]))
            /\ IF FirstShim(files[k]) = 0
               THEN rs[1].inc.outcome = "throw"
               ELSE rs[1].inc.outcome = "file" /\ rs[1].inc.ran = Shims[FirstShim(files[k])]

----------------------------------------------------------------------------
\* C27: the body returned for a Render holds what that Render echoed, and a
\* diagnostic behind it when the Render failed, and nothing else: whatever
\* the buffer held when the executor took the Op, left there by an earlier
\* Render or EvalScript, is not in the body.
C27_BufferStartsEmpty ==
    \A e \in Execs :
        LET l == last[e] IN
        l.kind = "Render" =>
            /\ l.status = "ok" => l.reply = Flatten(l.log)
            /\ l.status \in {"compile_error", "run_error"} =>
                 /\ EndsWithDiagnostic(l.reply, 1)
                 /\ BodyBeforeDiagnostic(l.reply, 1) = Flatten(l.log)
            /\ l.status = "echo_error" =>
                 l.reply = <<"Error: ", "Failed to create echo function">>
            /\ l.status # "echo_error" => buffer[e] = l.reply

\* A Render that echoed was handled right after an EvalScript, and found
\* text in the buffer when the executor took it.
C27_Witness ==
    /\ last[0].kind = "Render" /\ last[0].status = "ok"
    /\ last[0].reply # <<>>
    /\ last[0].stale
    /\ last[0].id > 1 /\ submitted[last[0].id - 1] = "Javascript"

----------------------------------------------------------------------------
\* A step of the loop of Parser::parse
ParseStep == parser.pc = "parsing" /\ results' # results

\* C28: whatever the input (the empty one, one with a fence left open, one
\* that ends in < or in ?), Parser::parse returns: its cursor never passes
\* the end of the input (no slice of the content is out of range), every
\* turn of its loop adds one block and moves the cursor forward by at least
\* one character, before the end of the input the loop is at a fence or at
\* text and so takes a turn, at the end it returns, and it returns only
\* there.
C28_ParseTotal ==
    /\ [](parser.pos <= Len(parser.content))
    /\ [][ParseStep => /\ parser'.pos > parser.pos
                       /\ Len(results') = Len(results) + 1
                       /\ parser'.pc = "parsing"]_vars
    /\ [](parser.pc = "parsing" =>
            IF parser.pos < Len(parser.content)
            THEN AtFence \/ AtText
            ELSE ENABLED ParseReturn)
    /\ [](parser.pc = "returned" => parser.pos = Len(parser.content))

\* A parse returned for an input whose last two characters open a fence that
\* nothing closes, behind an Html block.
C28_Witness ==
    /\ parser.pc = "returned"
    /\ Len(parser.content) >= 3
    /\ SubSeq(parser.content, Len(parser.content) - 1, Len(parser.content)) = <<"<", "?">>
    /\ Len(results) >= 2
    /\ results[Len(results)].kind = "Javascript"
    /\ results[Len(results)].content = <<>>

----------------------------------------------------------------------------
\* C29: an executor never has two script contexts: while it handles a Render
\* or an EvalScript it has the one made when it took that item from its
\* queue, between two items and after its loop it has none; so the context
\* of an item is gone before the next item is taken, and, the ids of the
\* items of an executor being distinct, no context serves two items.
C29_OneLiveContext ==
    /\ [](\A e \in Execs :
            /\ Cardinality(live[e]) <= 1
            /\ pc[e] = "busy" => live[e] = {cur[e].id}
            /\ pc[e] # "busy" => live[e] = {}
            /\ \A a, b \in 1..Len(delivered[e]) :
                  delivered[e][a] = delivered[e][b] => a = b)
    /\ [][\A e \in Execs :
            /\ (ExecRecv(e) /\ mailbox[e][1].kind # "Shutdown") =>
                   live[e] = {} /\ live'[e] = {mailbox[e][1].id}
            /\ ExecHandle(e) => live'[e] = {}]_vars

\* An executor handles its second item, a Render, in the context made for
\* it, the context of the first, an EvalScript that left a name, being gone.
C29_Witness ==
    \E e \in Execs :
        /\ pc[e] = "busy"
        /\ cur[e].kind = "Render"
        /\ Len(events[e]) = 3
        /\ live[e] = {cur[e].id}
        /\ "x" \in prevCtx[e]

----------------------------------------------------------------------------
(***************************************************************************)
(* The parser on pages of text with the three characters that              *)
(* parse_html_block escapes.                                               *)
(***************************************************************************)
Quotes == {"'", "\"", "BQ"}

TextPieces == {<<"<", "?">>, <<"?", ">">>, <<"'">>, <<"\"">>, <<"BQ">>, <<"\n">>, <<"h">>}

\* The pages of up to n pieces of text
Texts(n) == {ConcatAll(q) : q \in SeqsUpTo(TextPieces, n)}

SetText ==
    /\ parser.pc = "idle"
    /\ parser.content = <<>>
    /\ \E c \in Texts(MaxText) : set_content(c)

NextEscape ==
    \/ SetText
    \/ ParseBegin
    \/ ParseJsBlock
    \/ ParseHtmlBlock
    \/ ParseReturn

SpecEscape == Init /\ [][NextEscape]_vars

\* The characters of what parse_html_block pushes for one character
EntityChars(tok) ==
    CASE tok = "&#39;" -> <<"&", "#", "3", "9", ";">>
      [] tok = "&quot;" -> <<"&", "q", "u", "o", "t", ";">>
      [] tok = "&#96;" -> <<"&", "#", "9", "6", ";">>
      [] OTHER -> <<tok>>

\* What the claim says a character of an Html segment becomes
Escaped(ch) ==
    IF ch = "'" THEN "&#39;"
    ELSE IF ch = "\"" THEN "&quot;"
    ELSE IF ch = "BQ" THEN "&#96;"
    ELSE ch

\* C30: the content of an Html block is the segment of the input the block
\* consumed, character by character and in order, with &#39; for every ',
\* &quot; for every " and &#96; for every backtick and every other
\* character, a line break too, as it is; written out in characters it
\* holds none of the three.
C30_HtmlEscapesThreeCharacters ==
    /\ Len(spans) = Len(results)
    /\ \A i \in 1..Len(results) :
          results[i].kind = "Html" =>
             /\ Len(results[i].content) = Len(SpanText(i))
             /\ \A j \in 1..Len(SpanText(i)) :
                   /\ results[i].content[j] = Escaped(SpanText(i)[j])
                   /\ \A k \in 1..Len(EntityChars(results[i].content[j])) :
                         EntityChars(results[i].content[j])[k] \notin Quotes

\* An Html block that a fence ends consumed the three characters and a
\* line break.
C30_Witness ==
    /\ parser.pc = "returned"
    /\ Len(results) = 2
    /\ results[1].kind = "Html"
    /\ results[2].kind = "Javascript"
    /\ Quotes \cup {"\n"} \subseteq {SpanText(1)[j] : j \in 1..Len(SpanText(1))}

----------------------------------------------------------------------------
\* The first position of s that holds no white space, 0 when there is none
FirstNonWs(s) ==
    IF \A j \in 1..Len(s) : s[j] \in WhiteSpace THEN 0
    ELSE CHOOSE j \in 1..Len(s) :
            s[j] \notin WhiteSpace /\ \A k \in 1..(j - 1) : s[k] \in WhiteSpace

\* t is s without the white space at its two ends
IsTrimOf(t, s) ==
    \E a \in 0..Len(s) : \E b \in a..Len(s) :
        /\ t = SubSeq(s, a + 1, b)
        /\ \A k \in 1..a : s[k] \in WhiteSpace
        /\ \A k \in (b + 1)..Len(s) : s[k] \in WhiteSpace
        /\ t # <<>> => t[1] \notin WhiteSpace /\ t[Len(t)] \notin WhiteSpace

\* C31: a fenced block is an Expression exactly when the first character of
\* its body that is no white space is =; its content is then what follows
\* that = in the body, without the white space at its two ends; any other
\* fenced block is a Script block whose content is the body as it is.
C31_ExpressionIffEqualsFirst ==
    /\ Len(spans) = Len(results)
    /\ \A i \in 1..Len(results) :
          results[i].kind # "Html" =>
             /\ results[i].kind \in {"Expression", "Javascript"}
             /\ results[i].kind = "Expression" <=>
                   (FirstNonWs(Body(i)) # 0 /\ Body(i)[FirstNonWs(Body(i))] = "=")
             /\ results[i].kind = "Expression" =>
                   IsTrimOf(results[i].content,
                            SubSeq(Body(i), FirstNonWs(Body(i)) + 1, Len(Body(i))))
             /\ results[i].kind = "Javascript" => results[i].content = Body(i)

\* An Expression block whose body has white space before the = and more
\* white space that its content does not have.
C31_Witness ==
    /\ parser.pc = "returned"
    /\ \E i \in 1..Len(results) :
          /\ results[i].kind = "Expression"
          /\ Body(i)[1] \in WhiteSpace
          /\ results[i].content # <<>>
          /\ Len(results[i].content) + 2 < Len(Body(i))

----------------------------------------------------------------------------
(***************************************************************************)
(* The parser on pages whose fenced blocks open and close braces.          *)
(***************************************************************************)
BracePieces ==
    {<<"<", "?", "{">>, <<"<", "?", "}">>, <<"<", "?">>, <<"?", ">">>,
     <<"{">>, <<"}">>, <<" ">>, <<"h">>}

BracePages == {ConcatAll(q) : q \in SeqsUpTo(BracePieces, MaxBraces)}

SetBraces ==
    /\ parser.pc = "idle"
    /\ parser.content = <<>>
    /\ \E c \in BracePages : set_content(c)

\* Pages given to a parser that has parsed another page
LaterPages ==
    {<<"h">>, <<"<", "?", "}", "?", ">", "h">>, <<"<", "?", "{", "?", ">", "h">>}

\* set_content on a parser whose parse has returned; the caller drops the
\* blocks of that parse.
SetContentAgain ==
    /\ parser.pc = "returned"
    /\ \E c \in LaterPages : parser' = ContentSet(parser, c)
    /\ results' = <<>>
    /\ spans' = <<>>
    /\ UNCHANGED exceptParser

\* parse called again on the content the parser holds
ParseAgain ==
    /\ parser.pc = "returned"
    /\ parser' = [Reset(parser) EXCEPT !.pc = "parsing", !.left = parser.nesting]
    /\ results' = <<>>
    /\ spans' = <<>>
    /\ UNCHANGED exceptParser

NextNesting ==
    \/ SetBraces
    \/ ParseBegin
    \/ ParseJsBlock
    \/ ParseHtmlBlock
    \/ ParseReturn
    \/ SetContentAgain
    \/ ParseAgain

SpecNesting == Init /\ [][NextNesting]_vars

\* The last position of s that holds no white space, 0 when there is none
LastNonWs(s) ==
    IF \A j \in 1..Len(s) : s[j] \in WhiteSpace THEN 0
    ELSE CHOOSE j \in 1..Len(s) :
            s[j] \notin WhiteSpace /\ \A k \in (j + 1)..Len(s) : s[k] \in WhiteSpace

Closes(i) == FirstNonWs(Body(i)) # 0 /\ Body(i)[FirstNonWs(Body(i))] = "}"
Opens(i) == LastNonWs(Body(i)) # 0 /\ Body(i)[LastNonWs(Body(i))] = "{"

\* The nesting counter behind block i of the document, as the claim counts it
RECURSIVE CounterAfter(_)
CounterAfter(i) ==
    IF i = 0 THEN 0
    ELSE IF results[i].kind = "Html" THEN CounterAfter(i - 1)
    ELSE LET prev == CounterAfter(i - 1)
             lvl == IF Closes(i) /\ prev > 0 THEN prev - 1 ELSE prev
         IN IF Opens(i) THEN lvl + 1 ELSE lvl

\* The level the claim gives block i
LevelOf(i) ==
    IF results[i].kind # "Html" /\ Closes(i) /\ CounterAfter(i - 1) > 0
    THEN CounterAfter(i - 1) - 1
    ELSE CounterAfter(i - 1)

\* C32: the nesting counter of a parse starts at 0 and is never below 0; a
\* fenced block whose body starts (behind white space) with } takes one off
\* it unless it is 0, the block's level is the counter then, and a body
\* that ends (before white space) with { adds one behind that; an Html
\* block has for level the counter as the blocks before it left it.
C32_NestingCounter ==
    /\ Len(spans) = Len(results)
    /\ parser.nesting >= 0
    /\ parser.pc = "parsing" /\ results = <<>> => parser.nesting = 0
    /\ parser.pc \in {"parsing", "returned"} => parser.nesting = CounterAfter(Len(results))
    /\ \A i \in 1..Len(results) :
          results[i].level >= 0 /\ results[i].level = LevelOf(i)

\* The three blocks of a guarded text: a block that opens a brace at level
\* 0, an Html block at level 1, a block that closes the brace at level 0.
C32_Witness ==
    /\ parser.pc = "returned"
    /\ Len(results) = 3
    /\ results[1].kind = "Javascript" /\ Opens(1) /\ results[1].level = 0
    /\ results[2].kind = "Html" /\ results[2].level = 1
    /\ results[3].kind = "Javascript" /\ Closes(3) /\ results[3].level = 0
    /\ parser.nesting = 0

----------------------------------------------------------------------------
\* Parser::new(c).parse(): the blocks a parser made for c gives
RECURSIVE BlocksFrom(_, _, _, _)
ParseRest(c, r) == <<r.block>> \o BlocksFrom(c, r.pos, r.line, r.nesting)

BlocksFrom(c, pos, line, nesting) ==
    IF pos >= Len(c) THEN <<>>
    ELSE IF lookahead(c, pos, <<"<", "?">>)
    THEN ParseRest(c, parse_js_block(c, pos, line, nesting))
    ELSE ParseRest(c, parse_html_block(c, pos, line, nesting))

FreshParse(c) == BlocksFrom(c, 0, 1, 0)

\* C35: whatever parse and set_content calls came before, a parse returns
\* the blocks (kinds, contents, lines, columns, levels) that a new parser
\* returns for the content the parser holds: a brace that the document
\* before left open raises no level, and a second parse of the same content
\* gives the blocks of the first.
C35_ParseDependsOnContentOnly ==
    /\ parser.pc = "returned" => results = FreshParse(parser.content)
    /\ parser.pc = "parsing" =>
          /\ Len(results) <= Len(FreshParse(parser.content))
          /\ results = SubSeq(FreshParse(parser.content), 1, Len(results))
    /\ parser.pc = "idle" => parser.pos = 0 /\ parser.line = 1 /\ parser.nesting = 0

\* A parse returned an Html block at level 0 for a page set on a parser
\* whose parse of the page before had left a brace open.
C35_Witness ==
    /\ parser.pc = "returned"
    /\ parser.left > 0
    /\ Len(results) = 1
    /\ results[1].kind = "Html" /\ results[1].level = 0

----------------------------------------------------------------------------
\* The 1-based line and column of position p (1-based) of the content held
LineOf(p) == 1 + Cardinality({j \in 1..(p - 1) : parser.content[j] = "\n"})
ColOf(p) ==
    IF \A j \in 1..(p - 1) : parser.content[j] # "\n" THEN p
    ELSE p - Max({j \in 1..(p - 1) : parser.content[j] = "\n"})

\* The white space of the body of Expression block i up to its expression
Lead(i) ==
    FirstNonWs(Body(i)) +
    Len(SubSeq(Body(i), FirstNonWs(Body(i)) + 1, Len(Body(i)))) -
    Len(TrimStart(SubSeq(Body(i), FirstNonWs(Body(i)) + 1, Len(Body(i)))))

\* Where the content of block i starts in the source (1-based position)
ContentStart(i) ==
    CASE results[i].kind = "Html" -> spans[i].from + 1
      [] results[i].kind = "Javascript" -> spans[i].from + 3
      [] results[i].kind = "Expression" -> spans[i].from + 3 + Lead(i)

\* A line break stands in the body of block i before its expression
BreakBeforeExpression(i) ==
    \E j \in (spans[i].from + 3)..(ContentStart(i) - 1) : parser.content[j] = "\n"

\* C33: the line and the column of a block are the 1-based line and column
\* of the first character of its content in the source: the first consumed
\* character of an Html block, the character behind <? of a Script block,
\* the first character of the expression of an Expression block, line
\* breaks before it in the body or not.
C33_CoordinatesOfFirstCharacter ==
    (Len(spans) = Len(results)) =>
        \A i \in 1..Len(results) :
            (results[i].kind = "Expression" => results[i].content # <<>>) =>
                /\ results[i].lineno = LineOf(ContentStart(i))
                /\ results[i].colno = ColOf(ContentStart(i))

\* The same for every block but an Expression block with a line break in
\* its body before the expression
C33_CoordinatesWithoutEarlierBreak ==
    (Len(spans) = Len(results)) =>
        \A i \in 1..Len(results) :
            ((results[i].kind = "Expression" =>
                 results[i].content # <<>> /\ ~BreakBeforeExpression(i))) =>
                /\ results[i].lineno = LineOf(ContentStart(i))
                /\ results[i].colno = ColOf(ContentStart(i))

----------------------------------------------------------------------------
\* The content of block i of the blocks given to blocks_to_js without the
\* white space at its ends
Trimmed(i) ==
    IF FirstNonWs(js.blocks[i].content) = 0 THEN <<>>
    ELSE SubSeq(js.blocks[i].content, FirstNonWs(js.blocks[i].content),
                LastNonWs(js.blocks[i].content))

\* The entry of block i: expr is what stands inside echo(String( )) for an
\* Expression block
Entry(i, expr) ==
    CASE js.blocks[i].kind = "Html" -> <<"echo(BQ">> \o js.blocks[i].content \o <<"BQ);">>
      [] js.blocks[i].kind = "Expression" -> <<"echo(String(">> \o expr \o <<"));">>
      [] js.blocks[i].kind = "Javascript" -> Trimmed(i)

\* From position at on, the program is the entries of the blocks i and
\* later, e the entry of block i, one line break between two entries, and
\* it ends with the last entry.
RECURSIVE EntriesFrom(_, _, _)
EntryAt(i, at, e, trimExpr) ==
    /\ at + Len(e) - 1 <= Len(js.src)
    /\ SubSeq(js.src, at, at + Len(e) - 1) = e
    /\ IF i = Len(js.blocks) THEN Len(js.src) = at + Len(e) - 1
       ELSE /\ at + Len(e) <= Len(js.src)
            /\ js.src[at + Len(e)] = "\n"
            /\ EntriesFrom(i + 1, at + Len(e) + 1, trimExpr)

EntriesFrom(i, at, trimExpr) ==
    EntryAt(i, at, Entry(i, IF trimExpr THEN Trimmed(i) ELSE js.blocks[i].content),
            trimExpr)

\* C34 as stated: the program blocks_to_js gives has one entry a block, in
\* the order of the blocks: echo(BQ content BQ); for an Html block,
\* echo(String(content)); with the content as it is for an Expression
\* block, the content without the white space at its ends for a Script
\* block; one line break stands between two entries, nothing before the
\* first and nothing behind the last.
C34_ExpressionContentAsIs ==
    js.done => IF js.blocks = <<>> THEN js.src = <<>> ELSE EntriesFrom(1, 1, FALSE)

\* C34: the program blocks_to_js gives has one entry a block, in the order
\* of the blocks: echo(BQ content BQ); with the content as it is for an Html
\* block, echo(String(content)); with the content without the white space
\* at its ends for an Expression block, the content without the white space
\* at its ends for a Script block; one line break stands between two
\* entries, nothing before the first and nothing behind the last.
C34_OneEntryPerBlock ==
    js.done => IF js.blocks = <<>> THEN js.src = <<>> ELSE EntriesFrom(1, 1, TRUE)

\* The program of blocks with an Expression block whose content has white
\* space at an end and a Script block whose content has it too.
C34_Witness ==
    /\ js.done
    /\ \E j, k \in 1..Len(js.blocks) :
          /\ js.blocks[j].kind = "Expression"
          /\ Len(Trimmed(j)) < Len(js.blocks[j].content)
          /\ js.blocks[k].kind = "Javascript"
          /\ Len(Trimmed(k)) < Len(js.blocks[k].content)

----------------------------------------------------------------------------
\* C36: in every state, between the steps of a call of ensure_loaded too,
\* every loaded key has an installer and every key with an installer has an
\* object name; so for every call ensure_loaded(k) that returned Ok, with
\* None or with Some, install_one(k) finds an installer and object_name(k)
\* gives a name.
C36_LoadedHaveInstallerAndName ==
    /\ loaded \subseteq DOMAIN installers
    /\ DOMAIN installers \subseteq DOMAIN obj_names
    /\ \A n \in 1..Len(returns) :
          returns[n].ret \in {"None", "Some"} =>
             /\ returns[n].key \in DOMAIN installers
             /\ returns[n].key \in DOMAIN obj_names

\* A thread stands between its insert into installers and its insert into
\* loaded, for a key that has its name and its installer and is not loaded,
\* while the other key is loaded and a call for it has returned.
C36_Witness ==
    \E t \in Threads :
        /\ th[t].pc = "ins_loaded"
        /\ th[t].key \notin loaded
        /\ th[t].key \in DOMAIN installers
        /\ th[t].key \in DOMAIN obj_names
        /\ loaded # {}
        /\ \E n \in 1..Len(returns) : returns[n].ret = "None"

----------------------------------------------------------------------------
(***************************************************************************)
(* The locks of the registry in a call of include (bindings.rs, the        *)
(* callback of IncludeBinding::install; extensions.rs, ensure_loaded and   *)
(* install_one).  install_one holds the read guard of installers, a        *)
(* temporary of its if let, while the installer runs, and the installer    *)
(* runs the bootstrap scripts of the module in the context of the page,    *)
(* where include is a global function.  On the disk of this section the    *)
(* module s3 ships a bootstrap script that calls include('m'); the module  *)
(* m ships none that calls include.                                        *)
(***************************************************************************)
\* The module whose key the bootstrap script of module k passes to include
boot_include(k) == IF k = <<"s", "3">> THEN <<"m">> ELSE NoKey

\* The guards of installers that threads hold for reading
ReadGuards == {t \in Threads : stk[t] # <<>>}

\* self.installers.write(): the guard is given when no thread reads
WriteGranted(t) == ReadGuards = {}

\* self.installers.read(): std::sync::RwLock gives no new read guard while a
\* writer is parked, to a thread that holds a read guard no more than to
\* another; the write guard itself is taken and dropped within one step.
\* The parked writers are those that wait for the read guards of other
\* threads (WriteWait) and those that wait under a read guard of their own
\* (WriteUnderRead).
ReadGranted(t) == waiters = {}

\* Thread t has matched on every return of its calls of ensure_loaded
Matched(t) == taken[t] = Len(ReturnsTo(t))

Top(t) == stk[t][Len(stk[t])]

\* A page calls include(k): st.modules.ensure_loaded(&path)
CallInclude(t, k) ==
    /\ stk[t] = <<>>
    /\ Matched(t)
    /\ ReadCheck(t, k)

\* The bootstrap script that the innermost install_one runs calls include
BootInclude(t) ==
    /\ stk[t] # <<>>
    /\ Matched(t)
    /\ ~Top(t).ran
    /\ boot_include(Top(t).key) # NoKey
    /\ ReadCheck(t, boot_include(Top(t).key))

\* The stack once the bootstrap script on top has made its call
Ran(q) == IF q = <<>> THEN q ELSE [q EXCEPT ![Len(q)].ran = TRUE]

\* match st.modules.ensure_loaded(&path): install_one for Ok(Some) and for
\* Ok(None), which takes the read guard of installers and runs the
\* installer; nothing for Err.
AfterEnsure(t) ==
    /\ th[t].pc = "idle"
    /\ ~Matched(t)
    /\ LET call == ReturnsTo(t)[taken[t] + 1] IN
       /\ call.ret \in {"Some", "None"} => ReadGranted(t)
       /\ stk' = [stk EXCEPT ![t] =
                 IF call.ret \in {"Some", "None"} /\ call.key \in DOMAIN installers
                 THEN Append(Ran(@), [key |-> call.key, ran |-> FALSE])
                 ELSE Ran(@)]
    /\ taken' = [taken EXCEPT ![t] = @ + 1]
    /\ UNCHANGED <<waiters, regVars, exceptLock>>

\* The installer has run: the if let of install_one ends and drops the guard
EndInstall(t) ==
    /\ stk[t] # <<>>
    /\ th[t].pc = "idle"
    /\ Matched(t)
    /\ Top(t).ran \/ boot_include(Top(t).key) = NoKey
    /\ stk' = [stk EXCEPT ![t] = SubSeq(@, 1, Len(@) - 1)]
    /\ UNCHANGED <<taken, waiters, regVars, exceptLock>>

\* self.installers.write() of ensure_loaded, called while another thread
\* holds a read guard: the thread is parked until the guards are dropped
WriteWait(t) ==
    /\ th[t].pc = "ins_inst"
    /\ stk[t] = <<>>
    /\ ~WriteGranted(t)
    /\ t \notin waiters
    /\ waiters' = waiters \cup {t}
    /\ UNCHANGED <<stk, taken, regVars, exceptLock>>

\* self.installers.write().unwrap().insert(..) of ensure_loaded, by a thread
\* that was parked or not
InsertInstLocked(t) ==
    /\ WriteGranted(t)
    /\ th[t].pc = "ins_inst"
    /\ installers' = InsertInstaller(installers, th[t].key, th[t].inst)
    /\ th' = [th EXCEPT ![t].pc = "ins_loaded"]
    /\ waiters' = waiters \ {t}
    /\ UNCHANGED <<loaded, obj_names, loaded_w, lib, returns, opens, reopened, held>>
    /\ UNCHANGED <<stk, taken, exceptLock>>

\* RwLock::write called by a thread that holds a read guard of the lock:
\* the call never returns, or it panics; the thread goes no further either
\* way.  A thread whose call never returns is parked as a writer for good,
\* so from then on the lock gives no read guard to any thread.
WriteUnderRead(t) ==
    /\ th[t].pc = "ins_inst"
    /\ stk[t] # <<>>
    /\ \E o \in {"deadlocked", "panicked"} :
          /\ th' = [th EXCEPT ![t].pc = o]
          /\ waiters' = IF o = "deadlocked" THEN waiters \cup {t} ELSE waiters
    /\ UNCHANGED <<loaded, installers, obj_names, loaded_w, lib, returns, opens, reopened, held>>
    /\ UNCHANGED <<stk, taken, exceptLock>>

NextLocks ==
    \/ \E t \in Threads, k \in Keys : CallInclude(t, k)
    \/ \E t \in Threads : BootInclude(t)
    \/ \E t \in Threads : AfterEnsure(t)
    \/ \E t \in Threads : EndInstall(t)
    \/ \E t \in Threads : WriteCheck(t)
    \/ \E t \in Threads : Load(t)
    \/ \E t \in Threads : InsertObjName(t)
    \/ \E t \in Threads : WriteWait(t)
    \/ \E t \in Threads : InsertInstLocked(t)
    \/ \E t \in Threads : InsertLoaded(t)
    \/ \E t \in Threads : WriteUnderRead(t)
    \/ \E k \in Keys : LibraryAdded(k)

SpecLocks == Init /\ [][NextLocks]_vars

\* C37: no thread asks for the write lock of installers while it holds a
\* read guard of installers, also when the bootstrap script that install_one
\* runs under that guard calls include for a module that is not loaded; so
\* no call of include is left waiting for a guard its own thread holds.
C37_NoWriteUnderOwnRead ==
    \A t \in Threads :
        /\ ~(th[t].pc = "ins_inst" /\ stk[t] # <<>>)
        /\ th[t].pc \notin {"deadlocked", "panicked"}

----------------------------------------------------------------------------
\* Op i was given to ExecutorPool::send by the forwarder
Dispatched(i) == \E k \in 1..Len(dispatched) : dispatched[k].id = i

\* C38: as long as no Shutdown is submitted no executor leaves its loop and
\* no reply channel is dropped without a body; and, the forwarder and the
\* executors being run again and again, every render submitted is in the end
\* dispatched, handled and answered with one body, full mailboxes in between
\* or not: again and again all renders submitted so far are.
C38_EveryRenderAnswered ==
    /\ [](ShutdownIds = {} =>
            /\ \A e \in Execs : ~LeftLoop(pc, e)
            /\ \A i \in SubmittedRenders : ~closed[i] /\ Len(sent[i]) <= 1)
    /\ []<>(\/ ShutdownIds # {}
            \/ \A i \in SubmittedRenders :
                  /\ Dispatched(i)
                  /\ Handled(i)
                  /\ Len(sent[i]) = 1
                  /\ sent[i][1] # <<>>)

\* No Shutdown was submitted, the forwarder holds a render for an executor
\* whose mailbox is full, and an earlier render has its body.
C38_Witness ==
    /\ ShutdownIds = {}
    /\ fwd.pc = "send"
    /\ fwd.op.kind = "Render"
    /\ Len(mailbox[fwd.idx]) = MailboxCap
    /\ \E i \in SubmittedRenders : Len(sent[i]) = 1 /\ Handled(i)

----------------------------------------------------------------------------
\* A step of thread j inside join
JoinStep(j) == JoinTake(j) \/ JoinWait(j) \/ JoinReturn(j)

\* Each thread that is inside join is run again and again.
SpecJoinFair == SpecJoin /\ \A j \in Joiners : WF_vars(JoinStep(j))

\* Call c of join has returned
Returned(c) == jn[joins[c].by].call # c

\* C39 as stated: whichever call of join returns, every one of the N
\* executors has left its loop by then.
C39_JoinReturnsAfterAllLeft ==
    \A c \in 1..Len(joins) : Returned(c) => \A e \in Execs : pc[e] = "exited"

\* C39, amended: a call of join returns only after every executor whose
\* handle it took has left its loop, so the call that took all N handles
\* returns only after all N have; an executor has left its loop exactly when
\* it dequeued a Shutdown; a caller whose next handle is of an executor that
\* has not left can neither go on nor return; and, the callers being run, no
\* caller stays in join with only handles of executors that have left. A call
\* that found the list empty returns with no executor waited for.
C39_JoinReturnsAfterItsHandlesLeft ==
    /\ [](\A c \in 1..Len(joins) : Returned(c) =>
            /\ joins[c].joined = joins[c].took
            /\ \A h \in Range(joins[c].took) :
                 pc[h] = "exited" /\ \E i \in ShutdownIds : Dequeued(h, i)
            /\ Len(joins[c].took) = NumExecutors => \A e \in Execs : pc[e] = "exited")
    /\ [](\A e \in Execs : LeftLoop(pc, e) <=> \E i \in ShutdownIds : Dequeued(e, i))
    /\ [](\A j \in Joiners :
            (jn[j].pc = "joining" /\ jn[j].handles # <<>> /\ pc[Head(jn[j].handles)] # "exited")
                => ~ENABLED (JoinWait(j) \/ JoinReturn(j)))
    /\ []<>(\A j \in Joiners :
              /\ jn[j].pc # "locked"
              /\ jn[j].pc = "joining" => \E h \in Range(jn[j].handles) : pc[h] # "exited")

\* The call that took all N handles has returned, every executor having
\* dequeued its Shutdown, and another call, which found the list empty,
\* returned while an executor was still in its loop: it joined nothing.
C39_Witness ==
    \E c, d \in 1..Len(joins) :
        /\ Len(joins[c].took) = NumExecutors /\ Returned(c)
        /\ Len(joins[c].joined) = NumExecutors
        /\ \A e \in Execs : \E i \in ShutdownIds : Dequeued(e, i)
        /\ d < c + 2 /\ d # c /\ joins[d].took = <<>> /\ Returned(d)

----------------------------------------------------------------------------
\* The blocks of the last render were also run one by one
BothPathsRan ==
    /\ ores.res # "none"
    /\ last[0].kind = "Render"
    /\ last[0].status # "echo_error"
    /\ oin = last[0].arg

\* C40 as stated: for every document, the buffer run_jhp_blocks_with_origin
\* leaves after the blocks ran one by one is the buffer Executor::run leaves
\* after it evaluated the program of blocks_to_js in a new context, also when
\* a block opened by one Script block is closed by a later one.
C40_BothPathsSameBuffer == BothPathsRan => obuf = buffer[0]

\* No character of an Html content means anything inside a template literal
\* (a carriage return does: the literal reads it as a line feed)
PlainHtml(blocks) ==
    \A i \in 1..Len(blocks) : blocks[i].kind = "Html" =>
        \A k \in 1..Len(blocks[i].content) :
            blocks[i].content[k] \notin {"\\", "$", "BQ", "\r"}

\* What holds of the two paths: when every block ran alone without an error,
\* the one program ran without an error too, and the Html contents are plain,
\* the two buffers are the same.
C40_SameBufferWhenBothSucceed ==
    (BothPathsRan /\ ores.res = "Ok" /\ last[0].status = "ok" /\ PlainHtml(oin))
        => obuf = buffer[0]

\* A block opened by one Script block and closed by a later one, text in
\* between: the one program echoed the text, the blocks one by one stopped
\* at the first of them.
C40_SplitBlockDiffers ==
    /\ BothPathsRan
    /\ Len(oin) = 3
    /\ oin[2] = Html(<<"h">>)
    /\ last[0].status = "ok" /\ buffer[0] = <<"h">>
    /\ ores.res = "Err" /\ ores.block = 1
====
